---- MODULE Spec2Model ----
(***************************************************************************)
(* The plugin host of grimux (internal/plugin/plugin.go) as a state        *)
(* machine.  Guest (Lua) functions are arbitrary code: a running guest     *)
(* function is a frame on a call stack that may make any host API call,    *)
(* return, or raise.  There is no pcall in the guest (the interpreter is   *)
(* created with SkipOpenLibs), so an error raised by a host API call ends  *)
(* the guest function that made the call and is reported to the Go code    *)
(* that invoked the function with Protect: true.                           *)
(***************************************************************************)
EXTENDS Naturals, Integers, Sequences, FiniteSets, TLC

\* ------------------------------------------------------------- bounds
MaxLoads == 2   \* instances created over a run (each Load mints one)
MaxDepth == 4   \* frames on the call stack

\* ------------------------------------------------------------- domains
Nil == "nil"
NoInst == 0
Ids == 1..MaxLoads
PluginNames == {"a", "b"}
Paths == {"p1", "p2"}
Locals == {"run"}
Fns == {"f1", "f2"}
Cbs == {"c1", "c2"}
HookNames == {"before_write", "after_read", "before_openai", "after_openai"}
Values == {"v", "w"}
BufArgs == {"foo", "%g"}
Resps == {"y", " Y", "n"}
PromptErr == "err"
NoPrompt == "none"
Gated == {"print", "read", "write", "prompt", "http", "gen", "socat", "pipe"}
ApiNames == Gated \cup {"register", "format", "hook", "command"}
CapLists == {{}, {"read", "write"}}
\* the optional third argument of register: L.GetTop() >= 3 and its table
CapArgs == {[given |-> FALSE, list |-> {}]}
             \cup {[given |-> TRUE, list |-> c] : c \in CapLists}

\* ------------------------------------------------------------- pure helpers
\* cmd := p.Info.Name + "." + name
Qualified(name, local) == name \o "." \o local

CmdKeys == {Qualified(n, l) : n \in PluginNames, l \in Locals}

TrimPrefixNone(s, pre) == s
\* strings.TrimPrefix over the names the model uses
TrimPrefix(s, pre) ==
  IF \E t \in Locals : pre \o t = s
  THEN CHOOSE t \in Locals : pre \o t = s
  ELSE s

\* the names the REPL does not keep in its own store: the sink, the panes
\* of the terminal multiplexer (isPaneID: "%" and a number) and the buffers
\* tmux.ListBuffers reports (isTmuxBuffer)
NullBuffer == "%null"
PaneIDs == {"%1"}
TmuxBuffers == {"%t"}
isPaneID(name) == name \in PaneIDs
isTmuxBuffer(name) == name \in TmuxBuffers

\* which branch of writeBuffer a name takes
WriteKind(name) ==
  IF name = NullBuffer THEN "null"
  ELSE IF isPaneID(name) THEN "pane"
  ELSE IF isTmuxBuffer(name) THEN "tmux"
  ELSE "store"

pluginBufferNameRaw(pluginName, name) == name
\* strings.HasPrefix(name, "%") over the names the model uses
pluginBufferName(pluginName, name) ==
  IF name \in {"%g", "%@", NullBuffer} \cup PaneIDs \cup TmuxBuffers
  THEN name ELSE "%" \o pluginName \o "_" \o name

\* the buffers that hold a value: those of the REPL's store and, for the
\* names of TmuxBuffers, those of tmux
BufKeys == {pluginBufferName(n, b) : n \in PluginNames \cup {""}, b \in BufArgs}
             \cup {"%@"} \cup TmuxBuffers

\* strings.ToLower(strings.TrimSpace(resp))
Normalize(resp) == IF resp = " Y" THEN "y" ELSE resp

\* the test both gates apply to an answer the prompt returned without error
Affirmative(resp) == Normalize(resp) = "y"

CapAllowedLax(i, f) == TRUE
\* p.allowed != nil && !p.allowed[f]  (negated)
CapAllowed(i, f) == ~i.restricted \/ f \in i.allowed

\* ------------------------------------------------------------- state
VARIABLES
  plugins,    \* m.plugins : name -> instance (NoInst: no entry)
  inst,       \* the Plugin objects ever created, by id
  nextId,     \* the next instance to mint
  mute,       \* m.mute
  mcommands,  \* m.commands : qualified name -> owning instance
  replCmds,   \* the REPL's command table entries added through addCmdFn
  buffers,    \* the REPL's buffer store
  promptOn,   \* promptFn != nil
  stack,      \* the Go/Lua call stack, innermost frame last
  ret,        \* what the frame popped last hands to the frame below it
  last        \* what the step just taken showed outside the manager: the
              \* collaborators it called, the error it raised or returned,
              \* the value RunHook returned to the host

vars == <<plugins, inst, nextId, mute, mcommands, replCmds, buffers,
          promptOn, stack, ret, last>>

NoRet == [st |-> "none", val |-> ""]
\* an error and its message
ErrRet(e) == [st |-> "err", val |-> e]

\* what a step shows: op, the operation or API function it ran; own, whether
\* the handle passed was the caller's; arg, the argument the claims look at;
\* ans, the answer of the prompt collaborator; call, the collaborators it
\* called; err, the error it raised or returned; val, the value it was
\* passed or returned
\* to, args: the instance whose command function it invoked, and the
\* arguments it passed after the handle
Ev(op) ==
  [op |-> op, own |-> TRUE, arg |-> "", ans |-> NoPrompt, call |-> {},
   err |-> "", val |-> "", to |-> NoInst, args |-> <<>>]

MintSame(id) == 1
\* uuid.NewString(): a value no earlier call returned; the handle minted for
\* the instance created id-th is modelled by id
Mint(id) == id

NewPluginGranted(path) ==
  [name |-> "", path |-> path, handle |-> Mint(nextId), L |-> "open",
   shut |-> FALSE,
   commands |-> [l \in Locals |-> Nil],
   hooks |-> [h \in HookNames |-> <<>>],
   restricted |-> TRUE, allowed |-> {"read", "write"},
   bound |-> [k \in CmdKeys |-> Nil]]
\* &Plugin{Handle: uuid.NewString(), L: L, path: path, hooks: map...{}}
\* L: "open", or why it was closed ("failed": by Load, "unloaded": by Unload)
\* bound: for each qualified command name the instance registered, the
\* function RegisterCommand found under the local name at that moment
NewPlugin(path) ==
  [name |-> "", path |-> path, handle |-> Mint(nextId), L |-> "open",
   shut |-> FALSE,
   commands |-> [l \in Locals |-> Nil],
   hooks |-> [h \in HookNames |-> <<>>],
   restricted |-> FALSE, allowed |-> {},
   bound |-> [k \in CmdKeys |-> Nil]]

FreeSlot == [NewPlugin("") EXCEPT !.L = "none", !.handle = NoInst]

\* a Plugin object nothing refers to any more (the runtime reclaims it);
\* only how its interpreter ended is kept
Gone(l) ==
  [NewPlugin("") EXCEPT !.L = IF l = "open" THEN "gone" ELSE l,
                        !.handle = NoInst]

HandleOkLax(p, h) == TRUE
\* handle != p.Handle  (negated)
HandleOk(p, h) == h = inst[p].handle

Frame(k) ==
  [k |-> k, p |-> NoInst, role |-> "", hk |-> "", buf |-> "",
   out |-> "", data |-> "", seen |-> {}, cur |-> NoInst, fns |-> <<>>,
   then |-> "", name |-> "", path |-> "", dead |-> {},
   inp |-> "", reg |-> [i \in Ids |-> <<>>], ran |-> [i \in Ids |-> <<>>],
   fn |-> "", args |-> <<>>, vals |-> <<>>, all |-> <<>>]

GuestF(p, role) == [Frame("guest") EXCEPT !.p = p, !.role = role]
\* then: "host" for a Load the host called, "reload" for the one of Reload,
\* "loadall" for one of LoadAll
LoadF(p, then) == [Frame("load") EXCEPT !.p = p, !.then = then]
\* RunCommand in its loop over args: fn, the function it will call; all,
\* the arguments it was given; args, those still to expand; vals, the
\* expanded ones
CmdF(p, name, fn, args) ==
  [Frame("cmd") EXCEPT !.p = p, !.name = name, !.fn = fn, !.args = args,
                       !.all = args]
\* LoadAll in its loop over the entries: all, what os.ReadDir returned;
\* args, the entries still to visit; vals, the paths handed to Load so far
LoadAllF(entries) == [Frame("loadall") EXCEPT !.all = entries, !.args = entries]
\* Client.SendPrompt: role, where it is ("before": in the before_openai
\* hooks, "send": about to send, "after": in the after_openai hooks, "done");
\* inp, the prompt; data, the reply; out, reg, ran: what the RunHook that
\* returned last returned, found registered and invoked
AiF(prompt) == [Frame("ai") EXCEPT !.role = "before", !.inp = prompt]
UnloadF(p, name, then, path) ==
  [Frame("unload") EXCEPT !.p = p, !.name = name, !.then = then, !.path = path]

Top == stack[Len(stack)]
Pop(s) == SubSeq(s, 1, Len(s) - 1)
Idle == stack = <<>>
InGuest == stack # <<>> /\ Top.k = "guest"
Caller == Top.p
Handles == Ids \cup {NoInst}

\* instance i is reachable from the manager's maps pl, mc or from the stack st
Refd(i, pl, mc, st) ==
  \/ \E n \in PluginNames : pl[n] = i
  \/ \E k \in CmdKeys : mc[k] = i
  \/ \E j \in 1..Len(st) : st[j].p = i \/ st[j].cur = i

\* the instance table t once the unreachable Plugin objects are reclaimed
Collect(t, pl, mc, st) ==
  [i \in Ids |-> IF t[i].L # "none" /\ ~Refd(i, pl, mc, st) THEN Gone(t[i].L) ELSE t[i]]

Init ==
  /\ plugins = [n \in PluginNames |-> NoInst]
  /\ nextId = 1
  /\ inst = [i \in Ids |-> FreeSlot]
  /\ mute = [n \in PluginNames |-> FALSE]
  /\ mcommands = [k \in CmdKeys |-> NoInst]
  /\ replCmds = {}
  /\ buffers = [b \in BufKeys |-> IF isTmuxBuffer(b) THEN "v" ELSE Nil]
  /\ promptOn \in BOOLEAN
  /\ stack = <<>>
  /\ ret = NoRet
  /\ last = Ev("")

\* ------------------------------------------------------------- guest ends
\* the guest function on top of the stack ends: the Go code that called it
\* with Protect gets its value (st = "ok") or its error message
EndGuest(st, v) ==
  /\ stack' = Pop(stack)
  /\ ret' = IF Pop(stack) = <<>> THEN NoRet ELSE [st |-> st, val |-> v]

\* a host API call returned to the guest function that made it
Continue == stack' = stack /\ ret' = ret

\* the guest function returns a value
GuestReturn ==
  /\ InGuest
  /\ \E v \in Values : EndGuest("ok", v) /\ last' = [Ev("return") EXCEPT !.val = v]
  /\ inst' = Collect(inst, plugins, mcommands, Pop(stack))
  /\ UNCHANGED <<plugins, nextId, mute, mcommands, replCmds, buffers, promptOn>>

\* the guest function raises by itself: error(), a bad argument, a nil call
GuestError ==
  /\ InGuest
  /\ EndGuest("err", "guest error")
  /\ last' = [Ev("error") EXCEPT !.err = "guest error"]
  /\ inst' = Collect(inst, plugins, mcommands, Pop(stack))
  /\ UNCHANGED <<plugins, nextId, mute, mcommands, replCmds, buffers, promptOn>>

\* ------------------------------------------------------------- Load
\* Manager.Load up to the call of init; base: the frames of its caller
LoadBody(path, then, base) ==
  /\ nextId <= MaxLoads
  /\ nextId' = nextId + 1
  /\ \/ \* L.DoFile fails, or the script defines no init and so never
        \* registers: nothing was registered, no function was called
        /\ inst' = [inst EXCEPT ![nextId] = Gone("failed")]
        /\ stack' = base
        /\ ret' = IF base = <<>> THEN NoRet ELSE ErrRet("dofile error")
        /\ last' = [Ev("Load") EXCEPT !.arg = path, !.val = then,
                                      !.err = "dofile error"]
     \/ \* init(handle) is called
        /\ inst' = [inst EXCEPT ![nextId] = NewPlugin(path)]
        /\ stack' = base \o <<LoadF(nextId, then), GuestF(nextId, "init")>>
        /\ ret' = NoRet
        /\ last' = [Ev("Load") EXCEPT !.arg = path, !.val = then]
  /\ UNCHANGED <<plugins, mute, mcommands, replCmds, buffers, promptOn>>

Load(path) == Idle /\ LoadBody(path, "host", <<>>)

\* the second half of Manager.Reload: m.Load(path)
ReloadLoad ==
  stack # <<>> /\ Top.k = "reload" /\ LoadBody(Top.path, "reload", <<>>)

LoadFailsNever(r, name) == FALSE
\* if err := L.CallByParam(init...); err != nil { L.Close(); return nil, err }
\* if p.Info.Name == "" { L.Close(); return nil, ... }
LoadFails(r, name) == r.st = "err" \/ name = ""

\* init returned or raised: the rest of Manager.Load
LoadResume ==
  /\ stack # <<>> /\ Top.k = "load" /\ ret # NoRet
  /\ LET p == Top.p IN
     IF LoadFails(ret, inst[p].name)
     THEN /\ inst' = Collect([inst EXCEPT ![p].L = "failed"],
                              plugins, mcommands, Pop(stack))
          /\ plugins' = plugins
          /\ last' = [Ev("LoadEnd") EXCEPT !.err =
                        IF ret.st = "err" THEN ret.val
                        ELSE "plugin missing register call"]
     ELSE /\ plugins' = [plugins EXCEPT ![inst[p].name] = p]
          /\ \E hasShut \in BOOLEAN :
               inst' = Collect([inst EXCEPT ![p].shut = hasShut],
                               [plugins EXCEPT ![inst[p].name] = p],
                               mcommands, Pop(stack))
          /\ last' = [Ev("LoadEnd") EXCEPT !.arg = inst[p].name]
  /\ stack' = Pop(stack)
  /\ ret' = IF Pop(stack) = <<>> THEN NoRet
            ELSE IF LoadFails(ret, inst[Top.p].name) THEN ErrRet("load error")
            ELSE [st |-> "ok", val |-> ""]
  /\ UNCHANGED <<nextId, mute, mcommands, replCmds, buffers, promptOn>>

\* ------------------------------------------------------------- LoadAll
\* a directory entry: its path, e.Type().IsRegular(), the suffix of e.Name()
Entry(path, regular, suffix) ==
  [path |-> path, regular |-> regular, suffix |-> suffix]

\* what os.ReadDir may return: an empty directory; two scripts with a
\* sub-directory named like a script and a text file between them
DirListings ==
  {<<>>,
   <<Entry("s1", TRUE, ".lua"), Entry("d", FALSE, ".lua"),
     Entry("t", TRUE, ".txt"), Entry("s2", TRUE, ".lua")>>}

\* e.Type().IsRegular() && strings.HasSuffix(e.Name(), ".lua")
IsScript(e) == e.regular /\ e.suffix = ".lua"

\* the paths of the scripts of a listing, in its order
RECURSIVE Scripts(_)
Scripts(es) ==
  IF es = <<>> THEN <<>>
  ELSE IF IsScript(Head(es)) THEN <<Head(es).path>> \o Scripts(Tail(es))
  ELSE Scripts(Tail(es))

\* Manager.LoadAll up to its loop; rd: what os.UserHomeDir and os.ReadDir
\* do ("ok", "notexist", or "error" for any other failure)
LoadAll(rd, entries) ==
  /\ Idle
  /\ nextId + Len(Scripts(entries)) <= MaxLoads + 1
  /\ rd # "ok" => entries = <<>>
  /\ stack' = IF rd = "ok" THEN <<LoadAllF(entries)>> ELSE stack
  /\ last' = [Ev("LoadAll") EXCEPT !.arg = rd,
                 !.err = IF rd = "error" THEN "readdir error" ELSE ""]
  /\ UNCHANGED <<plugins, inst, nextId, mute, mcommands, replCmds, buffers,
                 promptOn, ret>>

\* for _, e := range entries : a script is handed to m.Load, anything else
\* is passed over
LoadAllStep ==
  /\ stack # <<>> /\ Top.k = "loadall" /\ ret = NoRet /\ Top.args # <<>>
  /\ LET e == Head(Top.args) IN
     IF IsScript(e)
     THEN LoadBody(e.path, "loadall",
                   [stack EXCEPT ![Len(stack)].vals = Append(@, e.path)])
     ELSE /\ stack' = [stack EXCEPT ![Len(stack)].args = Tail(@)]
          /\ last' = [Ev("skip") EXCEPT !.arg = e.path]
          /\ UNCHANGED <<plugins, inst, nextId, mute, mcommands, replCmds,
                         buffers, promptOn, ret>>

EntriesAfterAbort(es, r) == IF r.st = "err" THEN <<>> ELSE Tail(es)
\* if _, err := m.Load(path); err != nil { fmt.Fprintf(os.Stderr, ...) } :
\* the loop goes on with the next entry whatever Load returned
EntriesAfter(es, r) == Tail(es)

\* m.Load returned to the loop of LoadAll
LoadAllNext ==
  /\ stack # <<>> /\ Top.k = "loadall" /\ ret # NoRet
  /\ stack' = [stack EXCEPT ![Len(stack)].args = EntriesAfter(@, ret)]
  /\ ret' = NoRet
  /\ last' = [Ev("loaded") EXCEPT !.arg = Head(Top.args).path, !.val = ret.st,
                 !.call = IF ret.st = "err" THEN {"stderr"} ELSE {}]
  /\ UNCHANGED <<plugins, inst, nextId, mute, mcommands, replCmds, buffers,
                 promptOn>>

\* the loop is over: return nil
LoadAllEnd ==
  /\ stack # <<>> /\ Top.k = "loadall" /\ ret = NoRet /\ Top.args = <<>>
  /\ stack' = Pop(stack)
  /\ last' = [Ev("LoadAllEnd") EXCEPT !.args = Top.vals]
  /\ UNCHANGED <<plugins, inst, nextId, mute, mcommands, replCmds, buffers,
                 promptOn, ret>>

\* ------------------------------------------------------------- register
CapDeclinedNever(resp) == FALSE
\* err != nil || strings.ToLower(strings.TrimSpace(resp)) != "y"
CapDeclined(resp) == resp = PromptErr \/ ~Affirmative(resp)

CapsKind(caps) ==
  IF ~caps.given THEN "absent" ELSE IF caps.list = {} THEN "empty" ELSE "list"

ApiRegister(h, info, caps, resp) ==
  /\ InGuest
  /\ LET p == Caller
         asks == promptOn /\ caps.given /\ caps.list # {}
         e == [Ev("register") EXCEPT !.own = (h = inst[p].handle), !.arg = CapsKind(caps),
                                     !.ans = resp]
     IN
     /\ resp = NoPrompt <=> ~(HandleOk(p, h) /\ info # "badjson" /\ asks)
     /\ IF ~HandleOk(p, h)
        THEN /\ EndGuest("err", "invalid handle") /\ inst' = inst
             /\ last' = [e EXCEPT !.err = "invalid handle"]
        ELSE IF info = "badjson"
        THEN /\ EndGuest("err", "register: json") /\ inst' = inst
             /\ last' = [e EXCEPT !.err = "register: json"]
        ELSE IF asks /\ CapDeclined(resp)
        THEN /\ EndGuest("err", "api denied")
             /\ last' = [e EXCEPT !.call = {"prompt"}, !.err = "api denied"]
             /\ inst' = [inst EXCEPT ![p].name = info]
        ELSE /\ Continue
             /\ inst' = [inst EXCEPT
                  ![p].name = info,
                  ![p].restricted = IF caps.given THEN TRUE ELSE @,
                  ![p].allowed = IF caps.given THEN caps.list ELSE @]
             /\ last' = [e EXCEPT !.call = IF asks THEN {"prompt"} ELSE {}]
  /\ UNCHANGED <<plugins, nextId, mute, mcommands, replCmds, buffers, promptOn>>

\* ------------------------------------------------------------- Unload
\* p, ok := m.plugins[name]
Lookup(name) == IF name \in PluginNames THEN plugins[name] ELSE NoInst

PluginsAfterUnloadKeep(name) == plugins
\* delete(m.plugins, name)
PluginsAfterUnload(name) == [plugins EXCEPT ![name] = NoInst]

CommandsAfterUnloadKeep(q) == mcommands
\* for cmd, pl := range m.commands { if pl == p { delete(m.commands, cmd) ... } }
CommandsAfterUnload(q) ==
  [k \in CmdKeys |-> IF mcommands[k] = q THEN NoInst ELSE mcommands[k]]

\* delCmdFn(cmd) for each command deleted: removePluginCommand
ReplAfterUnload(q) == replCmds \ {k \in CmdKeys : mcommands[k] = q}

\* p.commands = nil ; p.L.Close()
UnloadInst(i, q) ==
  [i EXCEPT ![q].commands = [l \in Locals |-> Nil], ![q].L = "unloaded",
            ![q].bound = [k \in CmdKeys |-> Nil]]

\* where Unload returns to: the host, the Load of Reload, or the hook call
\* that was declined (which then raises "hook denied" in its guest function)
StackAfterUnload(base, then, path) ==
  IF then = "reload" THEN <<[Frame("reload") EXCEPT !.path = path]>>
  ELSE IF then = "hookdeny" THEN Pop(base)
  ELSE base

RetAfterUnload(base, then) ==
  IF then = "hookdeny" /\ Pop(base) # <<>> THEN ErrRet("hook denied") ELSE NoRet

\* the map updates and the close that end Manager.Unload of instance q
FinishUnload(i, q, name, base, then, path) ==
  /\ plugins' = PluginsAfterUnload(name)
  /\ mcommands' = CommandsAfterUnload(q)
  /\ replCmds' = ReplAfterUnload(q)
  /\ stack' = StackAfterUnload(base, then, path)
  /\ ret' = RetAfterUnload(base, then)
  /\ inst' = Collect(UnloadInst(i, q), PluginsAfterUnload(name),
                     CommandsAfterUnload(q), StackAfterUnload(base, then, path))

\* Manager.Unload from its lookup on, for an instance q found under name;
\* i is the instance table the caller has already updated
UnloadFound(i, q, name, base, then, path) ==
  IF i[q].shut
  THEN /\ Len(base) + 2 <= MaxDepth
       /\ stack' = base \o <<UnloadF(q, name, then, path), GuestF(q, "shutdown")>>
       /\ ret' = NoRet
       /\ inst' = i
       /\ UNCHANGED <<plugins, mcommands, replCmds>>
  ELSE FinishUnload(i, q, name, base, then, path)

\* shutdown(handle) returned or raised (its error is dropped): the rest
UnloadResume ==
  /\ stack # <<>> /\ Top.k = "unload" /\ ret # NoRet
  /\ FinishUnload(inst, Top.p, Top.name, Pop(stack), Top.then, Top.path)
  /\ last' = [Ev("UnloadEnd") EXCEPT !.arg = Top.name, !.val = ret.st,
                !.err = IF Top.then = "hookdeny" THEN "hook denied" ELSE ""]
  /\ UNCHANGED <<nextId, mute, buffers, promptOn>>

Unload(name) ==
  /\ Idle
  /\ IF Lookup(name) = NoInst
     THEN /\ last' = [Ev("Unload") EXCEPT !.arg = name, !.err = "plugin not loaded"]
          /\ UNCHANGED <<plugins, inst, mcommands, replCmds, stack, ret>>
     ELSE /\ UnloadFound(inst, Lookup(name), name, <<>>, "host", "")
          /\ last' = [Ev("Unload") EXCEPT !.arg = name]
  /\ UNCHANGED <<nextId, mute, buffers, promptOn>>

Reload(name) ==
  /\ Idle
  /\ nextId <= MaxLoads
  /\ IF Lookup(name) = NoInst
     THEN /\ last' = [Ev("Reload") EXCEPT !.arg = name, !.err = "plugin not loaded"]
          /\ UNCHANGED <<plugins, inst, mcommands, replCmds, stack, ret>>
     ELSE /\ UnloadFound(inst, Lookup(name), name, <<>>, "reload",
                         inst[Lookup(name)].path)
          /\ last' = [Ev("Reload") EXCEPT !.arg = name]
  /\ UNCHANGED <<nextId, mute, buffers, promptOn>>

\* ------------------------------------------------------------- Shutdown
\* Manager.Shutdown in its loop over m.plugins: seen, the keys the range
\* has produced
ShutdownF == Frame("shutall")

\* Manager.Shutdown is entered by the host
Shutdown ==
  /\ Idle
  /\ stack' = <<ShutdownF>>
  /\ last' = Ev("Shutdown")
  /\ UNCHANGED <<plugins, inst, nextId, mute, mcommands, replCmds, buffers,
                 promptOn, ret>>

\* for name := range m.plugins { m.Unload(name) } : the next key of the map,
\* in any order; a key deleted before it is reached is not produced
ShutdownStep ==
  /\ stack # <<>> /\ Top.k = "shutall" /\ ret = NoRet
  /\ \E n \in PluginNames \ Top.seen :
       /\ plugins[n] # NoInst
       /\ UnloadFound(inst, plugins[n], n,
                      [stack EXCEPT ![Len(stack)].seen = @ \cup {n}],
                      "shutall", "")
       /\ last' = [Ev("Unload") EXCEPT !.arg = n]
  /\ UNCHANGED <<nextId, mute, buffers, promptOn>>

\* the range is over: Shutdown returns
ShutdownEnd ==
  /\ stack # <<>> /\ Top.k = "shutall" /\ ret = NoRet
  /\ \A n \in PluginNames \ Top.seen : plugins[n] = NoInst
  /\ stack' = Pop(stack)
  /\ last' = Ev("ShutdownEnd")
  /\ UNCHANGED <<plugins, inst, nextId, mute, mcommands, replCmds, buffers,
                 promptOn, ret>>

\* ------------------------------------------------------------- List
\* infos[i].Name < infos[j].Name over the names the model uses
NameRank(n) == CASE n = "" -> 0 [] n = "a" -> 1 [] OTHER -> 2

\* sort.Slice(infos, ...) over the descriptors of the table entries ks
RECURSIVE SortedInfos(_)
SortedInfos(ks) ==
  IF ks = {} THEN <<>>
  ELSE LET k == CHOOSE k \in ks : \A j \in ks :
                  NameRank(inst[plugins[k]].name) <= NameRank(inst[plugins[j]].name)
       IN <<inst[plugins[k]].name>> \o SortedInfos(ks \ {k})

\* Manager.List: the descriptor (its name) of every entry of m.plugins
List == SortedInfos({n \in PluginNames : plugins[n] # NoInst})

\* ------------------------------------------------------------- hooks
\* the callbacks instance i has under hook name while it is in the table
Registered(i, name) ==
  IF \E n \in PluginNames : plugins[n] = i THEN inst[i].hooks[name] ELSE <<>>

\* dead: the instances Unload had closed when this RunHook was entered;
\* inp: the data it was called with; reg: the callbacks registered then;
\* ran: the callbacks it has invoked so far, by instance
HookF(name, buf, data, then, keep) ==
  [Frame("hook") EXCEPT !.hk = name, !.buf = buf, !.out = data, !.then = then,
                        !.data = keep, !.inp = data,
                        !.reg = [i \in Ids |-> Registered(i, name)],
                        !.dead = {i \in Ids : inst[i].L = "unloaded"}]

HasHookAny(name) == \E i \in Ids : Len(inst[i].hooks[name]) > 0
\* Manager.HasHook
HasHook(name) ==
  \E n \in PluginNames :
     plugins[n] # NoInst /\ Len(inst[plugins[n]].hooks[name]) > 0

\* Manager.RunHook is entered by the host: out := data
RunHook(name, buf, data) ==
  /\ Idle
  /\ stack' = <<HookF(name, buf, data, "host", "")>>
  /\ last' = [Ev("RunHook") EXCEPT !.arg = name]
  /\ UNCHANGED <<plugins, inst, nextId, mute, mcommands, replCmds, buffers,
                 promptOn, ret>>

\* for _, p := range m.plugins : the next entry of the map, in any order;
\* an entry removed before it is reached is not produced
HookVisit ==
  /\ stack # <<>> /\ Top.k = "hook" /\ ret = NoRet /\ Top.fns = <<>>
  /\ \E n \in PluginNames \ Top.seen :
       /\ plugins[n] # NoInst
       /\ LET st == [stack EXCEPT ![Len(stack)].seen = @ \cup {n},
                                   ![Len(stack)].cur = plugins[n],
                                   ![Len(stack)].fns = inst[plugins[n]].hooks[Top.hk]]
          IN stack' = st /\ inst' = Collect(inst, plugins, mcommands, st)
  /\ last' = Ev("visit")
  /\ UNCHANGED <<plugins, nextId, mute, mcommands, replCmds, buffers,
                 promptOn, ret>>

RestNone(fns) == <<>>
\* for _, fn := range fns : the callbacks still to call after this one
Rest(fns) == Tail(fns)

\* for _, fn := range fns : p.L.CallByParam(fn, buf, out)
HookInvoke ==
  /\ stack # <<>> /\ Top.k = "hook" /\ ret = NoRet /\ Top.fns # <<>>
  /\ Len(stack) < MaxDepth
  /\ stack' = Append([stack EXCEPT ![Len(stack)].fns = Rest(@),
                                   ![Len(stack)].ran[Top.cur] =
                                       Append(@, Head(Top.fns))],
                     GuestF(Top.cur, "cb"))
  /\ last' = [Ev("invoke") EXCEPT !.arg = Head(Top.fns), !.val = Top.out]
  /\ UNCHANGED <<plugins, inst, nextId, mute, mcommands, replCmds, buffers,
                 promptOn, ret>>

OutAfterAny(r, out) == r.val
\* err == nil: out = val.String() ; otherwise out is left as it was
OutAfter(r, out) == IF r.st = "ok" THEN r.val ELSE out

\* CallByParam returned to the loop of RunHook
HookResume ==
  /\ stack # <<>> /\ Top.k = "hook" /\ ret # NoRet
  /\ stack' = [stack EXCEPT ![Len(stack)].out = OutAfter(ret, @)]
  /\ ret' = NoRet
  /\ last' = [Ev("resume") EXCEPT !.arg = ret.st]
  /\ UNCHANGED <<plugins, inst, nextId, mute, mcommands, replCmds, buffers,
                 promptOn>>

\* the loop of RunHook is over: return out to whoever called RunHook.
\* "host": a call by the host; "write"/"writeraise": writeBuffer stores the
\* value (buffers[name] = data) and the API call returns / raises;
\* "promptw": the same for the answer of prompt; "promptexp": readBuffer
\* returns the value that replaces the token the answer of prompt is;
\* "ai": RunHook returns to Client.SendPrompt;
\* "read": readBuffer returns; "gen1", "pipeok", "pipeerr": a collaborator
\* that goes on to write another buffer; "arg": readBuffer returns the
\* value that replaces the token in the argument RunCommand is expanding
\* (data: the text of the argument before the token)
HookFinish ==
  /\ stack # <<>> /\ Top.k = "hook" /\ ret = NoRet /\ Top.fns = <<>>
  /\ \A n \in PluginNames \ Top.seen : plugins[n] = NoInst
  /\ LET f == Top
         base == Pop(stack)
         st == CASE f.then = "writeraise" -> Pop(base)
                 [] f.then = "arg" ->
                      [base EXCEPT ![Len(base)].vals = Append(@, f.data \o f.out),
                                   ![Len(base)].args = Tail(@)]
                 [] f.then = "ai" ->
                      [base EXCEPT ![Len(base)].out = f.out,
                                   ![Len(base)].reg = f.reg,
                                   ![Len(base)].ran = f.ran,
                                   ![Len(base)].role =
                                       IF @ = "before" THEN "send" ELSE "done"]
                 [] f.then = "promptexp" ->
                      IF WriteKind(f.data) = "store"
                      THEN Append(base, HookF("before_write", f.data, f.out,
                                              "promptw", f.out))
                      ELSE base
                 [] f.then = "gen1" ->
                      Append(base, HookF("before_write", f.buf, f.data, "write", ""))
                 [] f.then \in {"pipeok", "pipeerr"} ->
                      Append(base, HookF("before_write", "%@", f.data,
                               IF f.then = "pipeok" THEN "write" ELSE "writeraise", ""))
                 [] OTHER -> base
     IN
     /\ buffers' = IF f.then \in {"write", "writeraise", "gen1", "promptw"}
                   THEN [buffers EXCEPT ![f.buf] = f.out]
                   ELSE IF f.then = "promptexp" /\ WriteKind(f.data) = "tmux"
                   THEN [buffers EXCEPT ![f.data] = f.out]
                   ELSE buffers
     /\ stack' = st
     /\ inst' = Collect(inst, plugins, mcommands, st)
     /\ ret' = IF f.then = "writeraise" /\ Pop(base) # <<>>
               THEN ErrRet("pipe error") ELSE NoRet
     /\ last' = [Ev("RunHookEnd") EXCEPT !.arg = f.hk, !.val = f.out,
                   !.err = IF f.then = "writeraise" THEN "pipe error" ELSE ""]
  /\ UNCHANGED <<plugins, nextId, mute, mcommands, replCmds, promptOn>>

\* ------------------------------------------------------------- SendPrompt
\* Client.SendPrompt is entered: prompt = RunHook("before_openai", "", prompt)
SendPrompt(prompt) ==
  /\ Idle
  /\ stack' = <<AiF(prompt), HookF("before_openai", "", prompt, "ai", "")>>
  /\ last' = [Ev("SendPrompt") EXCEPT !.val = prompt]
  /\ UNCHANGED <<plugins, inst, nextId, mute, mcommands, replCmds, buffers,
                 promptOn, ret>>

\* what the request may come to: a reply, "unsent" (json.Marshal or
\* http.NewRequest fails) or PromptErr (the transport fails, the status is
\* not 200, the body does not decode, there is no choice)
Unsent == "unsent"
Replies == Values \cup {Unsent, PromptErr}

AfterRunsAlways(reply) == TRUE
\* every failure returns before reply = RunHook("after_openai", "", reply)
AfterRuns(reply) == reply \notin {Unsent, PromptErr}

\* the request is built and sent with the prompt the hooks returned
AiSend ==
  /\ stack # <<>> /\ Top.k = "ai" /\ Top.role = "send"
  /\ Len(stack) < MaxDepth
  /\ \E reply \in Replies :
       /\ stack' = IF AfterRuns(reply)
                   THEN <<[Top EXCEPT !.role = "after", !.data = reply],
                          HookF("after_openai", "", reply, "ai", "")>>
                   ELSE Pop(stack)
       /\ last' = [Ev("send") EXCEPT !.arg = Top.out, !.val = reply,
                      !.call = IF reply = Unsent THEN {} ELSE {"http"},
                      !.err = IF reply \in {Unsent, PromptErr}
                              THEN "openai: error" ELSE ""]
  /\ UNCHANGED <<plugins, inst, nextId, mute, mcommands, replCmds, buffers,
                 promptOn, ret>>

\* return reply, nil
AiReturn ==
  /\ stack # <<>> /\ Top.k = "ai" /\ Top.role = "done"
  /\ stack' = Pop(stack)
  /\ last' = [Ev("SendPromptEnd") EXCEPT !.val = Top.out]
  /\ UNCHANGED <<plugins, inst, nextId, mute, mcommands, replCmds, buffers,
                 promptOn, ret>>

\* ------------------------------------------------------------- hook, command
\* err == nil && strings.ToLower(strings.TrimSpace(resp)) != "y"
HookDeclined(resp) == resp # PromptErr /\ ~Affirmative(resp)

AddHookAlways(fns, cb) == Append(fns, cb)
\* exists ... if !exists { p.hooks[hookName] = append(p.hooks[hookName], cb) }
AddHook(fns, cb) ==
  IF \E j \in 1..Len(fns) : fns[j] = cb THEN fns ELSE Append(fns, cb)

MutedNever(name) == FALSE
\* Manager.Muted
Muted(name) == name \in PluginNames /\ mute[name]

ApiHook(h, hk, cb, resp) ==
  /\ InGuest
  /\ LET p == Caller
         e == [Ev("hook") EXCEPT !.own = (h = inst[p].handle), !.arg = hk, !.ans = resp,
                                 !.val = cb]
     IN
     /\ resp = NoPrompt <=> ~(HandleOk(p, h) /\ promptOn)
     /\ IF ~HandleOk(p, h)
        THEN /\ EndGuest("err", "invalid handle")
             /\ last' = [e EXCEPT !.err = "invalid handle"]
             /\ UNCHANGED <<plugins, inst, mcommands, replCmds>>
        ELSE IF promptOn /\ HookDeclined(resp)
        THEN \* m.Unload(p.Info.Name) ; L.RaiseError("hook denied")
             /\ LET q == Lookup(inst[p].name)
                IN IF q = NoInst
                   THEN /\ EndGuest("err", "hook denied")
                        /\ last' = [e EXCEPT !.call = {"prompt"}, !.err = "hook denied"]
                        /\ UNCHANGED <<plugins, inst, mcommands, replCmds>>
                   ELSE /\ UnloadFound(inst, q, inst[p].name, stack, "hookdeny", "")
                        /\ last' = [e EXCEPT !.call = {"prompt"},
                                      !.err = IF inst[q].shut THEN "" ELSE "hook denied"]
        ELSE /\ Continue
             /\ inst' = [inst EXCEPT ![p].hooks[hk] = AddHook(@, cb)]
             /\ last' = [e EXCEPT !.call =
                         (IF promptOn THEN {"prompt"} ELSE {}) \cup
                         (IF AddHook(inst[p].hooks[hk], cb) # inst[p].hooks[hk]
                             /\ ~Muted(inst[p].name)
                          THEN {"print"} ELSE {})]
             /\ UNCHANGED <<plugins, mcommands, replCmds>>
  /\ UNCHANGED <<nextId, mute, buffers, promptOn>>

TakenNever(cmd) == FALSE
\* _, ok := m.commands[cmd]
Taken(cmd) == mcommands[cmd] # NoInst

\* Manager.RegisterCommand ; fn is what the global `local` is bound to in the
\* guest when command(handle, local) is called (Nil: not a function)
ApiCommand(h, local, fn) ==
  /\ InGuest
  /\ LET p == Caller
         cmd == Qualified(inst[p].name, local)
         e == [Ev("command") EXCEPT !.own = (h = inst[p].handle), !.arg = local]
     IN
     IF ~HandleOk(p, h)
     THEN /\ EndGuest("err", "invalid handle")
          /\ last' = [e EXCEPT !.err = "invalid handle"]
          /\ UNCHANGED <<inst, mcommands, replCmds>>
     ELSE IF inst[p].name = ""
     THEN /\ EndGuest("err", "command: plugin not registered")
          /\ last' = [e EXCEPT !.err = "command: plugin not registered"]
          /\ UNCHANGED <<inst, mcommands, replCmds>>
     ELSE IF Taken(cmd)
     THEN /\ EndGuest("err", "command: command exists")
          /\ last' = [e EXCEPT !.err = "command: command exists"]
          /\ UNCHANGED <<inst, mcommands, replCmds>>
     ELSE IF fn = Nil
     THEN /\ EndGuest("err", "command: function not found")
          /\ last' = [e EXCEPT !.err = "command: function not found"]
          /\ UNCHANGED <<inst, mcommands, replCmds>>
     ELSE /\ Continue
          /\ inst' = [inst EXCEPT ![p].commands[local] = fn,
                                  ![p].bound[cmd] = fn]
          /\ mcommands' = [mcommands EXCEPT ![cmd] = p]
          /\ replCmds' = replCmds \cup {cmd}
          /\ last' = [e EXCEPT !.call = {"addcmd"}, !.val = fn]
  /\ UNCHANGED <<plugins, nextId, mute, buffers, promptOn>>

\* ------------------------------------------------------------- RunCommand
\* the arguments of a command line: "x" holds no buffer token, "%g" is one
CmdArgs == {<<>>, <<"x">>, <<"%g", "x">>}

\* the arguments of the model that hold a token after other text
Embedded == {"x%g"}

\* the token bufferPattern finds in a string (Nil: none), and the text
\* before it
TokenIn(a) ==
  IF a \in BufKeys THEN a ELSE IF a \in Embedded THEN "%g" ELSE Nil
BeforeToken(a) == IF a \in Embedded THEN "x" ELSE ""

IsTokenNever(a) == FALSE
\* bufferPattern matches in the string
IsToken(a) == TokenIn(a) # Nil

\* p.L.CallByParam(lua.P{Fn: fn, ...}, vals...) with vals = handle, args
CallCommand(p, fn, vals, e) ==
  /\ stack' = <<GuestF(p, "cmd")>>
  /\ last' = [e EXCEPT !.val = fn, !.to = p, !.args = vals]

OwnerAny(name) ==
  IF \E k \in CmdKeys : mcommands[k] # NoInst
  THEN mcommands[CHOOSE k \in CmdKeys : mcommands[k] # NoInst]
  ELSE NoInst
\* p, ok := m.commands[name]
Owner(name) == mcommands[name]

RunCommand(name, args) ==
  /\ Idle
  /\ LET p == Owner(name)
         local == TrimPrefix(name, inst[p].name \o ".")
         \* fn, ok := p.commands[local]
         fn == IF local \in Locals THEN inst[p].commands[local] ELSE Nil
         e == [Ev("RunCommand") EXCEPT !.arg = name, !.args = args]
     IN
     IF p = NoInst
     THEN /\ last' = [e EXCEPT !.err = "command not found"]
          /\ stack' = stack
     ELSE IF fn = Nil
     THEN /\ last' = [e EXCEPT !.err = "no function"]
          /\ stack' = stack
     ELSE IF args = <<>>
     THEN CallCommand(p, fn, <<>>, e)
     ELSE /\ stack' = <<CmdF(p, name, fn, args)>>
          /\ last' = e
  /\ UNCHANGED <<plugins, inst, nextId, mute, mcommands, replCmds, buffers,
                 promptOn, ret>>

\* for _, a := range args : a token whose buffer readBufFn finds is replaced
\* by what readBuffer returns (the after_read hooks run on it); any other
\* argument is passed as it is
CmdExpand ==
  /\ stack # <<>> /\ Top.k = "cmd" /\ Top.args # <<>>
  /\ LET a == Head(Top.args) IN
     IF IsToken(a) /\ buffers[TokenIn(a)] # Nil
     THEN /\ Len(stack) < MaxDepth
          /\ stack' = Append(stack, HookF("after_read", TokenIn(a),
                                          buffers[TokenIn(a)], "arg",
                                          BeforeToken(a)))
          /\ last' = [Ev("expand") EXCEPT !.arg = a, !.call = {"read"}]
     ELSE /\ stack' = [stack EXCEPT ![Len(stack)].vals = Append(@, a),
                                    ![Len(stack)].args = Tail(@)]
          /\ last' = [Ev("expand") EXCEPT !.arg = a,
                        !.call = IF IsToken(a) THEN {"read"} ELSE {}]
  /\ UNCHANGED <<plugins, inst, nextId, mute, mcommands, replCmds, buffers,
                 promptOn, ret>>

\* the loop over args is over: the call
CmdCall ==
  /\ stack # <<>> /\ Top.k = "cmd" /\ Top.args = <<>>
  /\ CallCommand(Top.p, Top.fn, Top.vals, [Ev("call") EXCEPT !.arg = Top.name])
  /\ UNCHANGED <<plugins, inst, nextId, mute, mcommands, replCmds, buffers,
                 promptOn, ret>>

\* Manager.ToggleMute: m.mute[name] = !m.mute[name] ; return m.mute[name]
ToggleMute(name) ==
  /\ Idle
  /\ mute' = [mute EXCEPT ![name] = ~@]
  /\ last' = [Ev("ToggleMute") EXCEPT !.arg = name,
                 !.val = IF ~mute[name] THEN "muted" ELSE "unmuted"]
  /\ UNCHANGED <<plugins, inst, nextId, mcommands, replCmds, buffers,
                 promptOn, stack, ret>>

\* ------------------------------------------------------------- gated API
\* the two checks every gated closure starts with
GateResult(p, h, f) ==
  IF ~HandleOk(p, h) THEN "invalid handle"
  ELSE IF ~CapAllowed(inst[p], f) THEN "not allowed"
  ELSE "pass"

ApiEv(f, h) == [Ev(f) EXCEPT !.own = (h = inst[Caller].handle)]

\* L.RaiseError before anything else was done
Rejected(f, h, why) ==
  /\ EndGuest("err", why)
  /\ last' = [ApiEv(f, h) EXCEPT !.err = why]
  /\ buffers' = buffers

\* a guest call enters RunHook through readBuffer / writeBuffer
CallHook(name, buf, data, then, keep) ==
  /\ Len(stack) < MaxDepth
  /\ stack' = Append(stack, HookF(name, buf, data, then, keep))
  /\ ret' = ret
  /\ buffers' = buffers

BufOf(name) == pluginBufferName(inst[Caller].name, name)

\* a guest call enters the REPL's writeBuffer(buf, data): "%null" drops the
\* data, a pane gets it as keys, a tmux buffer is set to it, and only a
\* buffer of the REPL's store goes through the before_write hooks (then,
\* keep: as for CallHook); after the first three the API call returns
WriteBuffer(buf, data, then, keep) ==
  IF WriteKind(buf) = "store"
  THEN CallHook("before_write", buf, data, then, keep)
  ELSE /\ then \in {"write", "promptw", "gen1"}
       /\ Continue
       /\ buffers' = IF WriteKind(buf) = "tmux"
                     THEN [buffers EXCEPT ![buf] = data] ELSE buffers

\* the collaborators writeBuffer(buf, ...) calls
WriteCalls(buf) ==
  IF WriteKind(buf) = "pane" THEN {"write", "sendkeys"}
  ELSE IF WriteKind(buf) = "tmux" THEN {"write", "setbuffer"}
  ELSE {"write"}

ApiPrint(h) ==
  /\ InGuest
  /\ LET g == GateResult(Caller, h, "print") IN
     IF g # "pass" THEN Rejected("print", h, g)
     ELSE /\ Continue /\ buffers' = buffers
          /\ last' = [ApiEv("print", h) EXCEPT !.call =
                      IF Muted(inst[Caller].name) THEN {} ELSE {"print"}]
  /\ UNCHANGED <<plugins, inst, nextId, mute, mcommands, replCmds, promptOn>>

ApiFormat(h) ==
  /\ InGuest
  /\ IF ~HandleOk(Caller, h) THEN Rejected("format", h, "invalid handle")
     ELSE Continue /\ buffers' = buffers /\ last' = ApiEv("format", h)
  /\ UNCHANGED <<plugins, inst, nextId, mute, mcommands, replCmds, promptOn>>

\* ok: the request is built, sent and its body read without error
ApiHttp(h, ok) ==
  /\ InGuest
  /\ LET g == GateResult(Caller, h, "http") IN
     IF g # "pass" THEN ok /\ Rejected("http", h, g)
     ELSE /\ IF ok THEN Continue ELSE EndGuest("err", "http: error")
          /\ buffers' = buffers
          /\ last' = [ApiEv("http", h) EXCEPT !.call = {"http"},
                      !.err = IF ok THEN "" ELSE "http: error"]
  /\ UNCHANGED <<plugins, inst, nextId, mute, mcommands, replCmds, promptOn>>

\* readBufFn(pluginBufferName(...)) is the REPL's readBuffer: a stored value
\* goes through the after_read hooks
ApiRead(h, name) ==
  /\ InGuest
  /\ LET g == GateResult(Caller, h, "read") IN
     IF g # "pass" THEN Rejected("read", h, g)
     ELSE /\ IF buffers[BufOf(name)] = Nil
             THEN Continue /\ buffers' = buffers
             ELSE CallHook("after_read", BufOf(name), buffers[BufOf(name)], "read", "")
          /\ last' = [ApiEv("read", h) EXCEPT !.call = {"read"}, !.arg = BufOf(name),
                      !.val = name]
  /\ UNCHANGED <<plugins, inst, nextId, mute, mcommands, replCmds, promptOn>>

\* writeBufFn(pluginBufferName(...), data) is the REPL's writeBuffer
ApiWrite(h, name, data) ==
  /\ InGuest
  /\ LET g == GateResult(Caller, h, "write") IN
     IF g # "pass" THEN Rejected("write", h, g)
     ELSE /\ WriteBuffer(BufOf(name), data, "write", "")
          /\ last' = [ApiEv("write", h) EXCEPT !.call = WriteCalls(BufOf(name)),
                      !.arg = BufOf(name), !.val = name]
  /\ UNCHANGED <<plugins, inst, nextId, mute, mcommands, replCmds, promptOn>>

PromptExpandsNever(resp) == FALSE
\* bufferPattern matches the answer and readBufFn(tok) finds the buffer
PromptExpands(resp) == IsToken(resp) /\ buffers[resp] # Nil

\* resp: the user's answer (a text without a token, or a token) or
\* PromptErr.  A token readBufFn finds is replaced by what readBuffer
\* returns ("promptexp": the after_read hooks run on the stored value);
\* the result is handed to writeBuffer ("promptw") and returned
ApiPrompt(h, name, resp) ==
  /\ InGuest
  /\ LET g == GateResult(Caller, h, "prompt") IN
     /\ resp = NoPrompt <=> (g # "pass" \/ ~promptOn)
     /\ IF g # "pass" THEN Rejected("prompt", h, g)
        ELSE IF ~promptOn
        THEN Continue /\ buffers' = buffers /\ last' = ApiEv("prompt", h)
        ELSE /\ IF resp = PromptErr
                THEN EndGuest("err", "prompt: error") /\ buffers' = buffers
                ELSE IF PromptExpands(resp)
                THEN CallHook("after_read", resp, buffers[resp], "promptexp",
                              BufOf(name))
                ELSE WriteBuffer(BufOf(name), resp, "promptw", resp)
             /\ last' = [ApiEv("prompt", h) EXCEPT
                         !.call = IF resp = PromptErr THEN {"prompt"}
                                  ELSE IF IsToken(resp)
                                  THEN {"prompt", "read"} \cup WriteCalls(BufOf(name))
                                  ELSE {"prompt"} \cup WriteCalls(BufOf(name)),
                         !.err = IF resp = PromptErr THEN "prompt: error" ELSE "",
                         !.ans = resp,
                         !.arg = BufOf(name), !.val = name]
  /\ UNCHANGED <<plugins, inst, nextId, mute, mcommands, replCmds, promptOn>>

\* genCmdFn is the REPL's closure: on success it writes the reply to the
\* buffer itself, and then the closure of plugin.gen writes it again.
\* reply: what Client.SendPrompt returned to the closure; its two RunHook
\* calls are left out, so the action is for a plugin table that holds no
\* before_openai or after_openai callback
ApiGen(h, name, reply) ==
  /\ InGuest
  /\ ~HasHook("before_openai") /\ ~HasHook("after_openai")
  /\ LET g == GateResult(Caller, h, "gen") IN
     IF g # "pass" THEN reply = PromptErr /\ Rejected("gen", h, g)
     ELSE /\ IF reply = PromptErr
             THEN EndGuest("err", "gen: error") /\ buffers' = buffers
             ELSE WriteBuffer(BufOf(name), reply, "gen1", reply)
          /\ last' = [ApiEv("gen", h) EXCEPT
                      !.call = IF reply = PromptErr THEN {"gen"}
                               ELSE {"gen"} \cup WriteCalls(BufOf(name)),
                      !.err = IF reply = PromptErr THEN "gen: error" ELSE "",
                      !.arg = BufOf(name), !.val = name]
  /\ UNCHANGED <<plugins, inst, nextId, mute, mcommands, replCmds, promptOn>>

\* socatCmdFn / pipeCmdFn are the REPL's closures: readBuffer(buf), run the
\* process, writeBuffer("%@", output), return (output, err)
Piped(f, h, name, out, ok) ==
  /\ InGuest
  /\ LET g == GateResult(Caller, h, f) IN
     IF g # "pass" THEN ok /\ out = "v" /\ Rejected(f, h, g)
     ELSE /\ IF buffers[BufOf(name)] = Nil
             THEN CallHook("before_write", "%@", out,
                           IF ok THEN "write" ELSE "writeraise", "")
             ELSE CallHook("after_read", BufOf(name), buffers[BufOf(name)],
                           IF ok THEN "pipeok" ELSE "pipeerr", out)
          /\ last' = [ApiEv(f, h) EXCEPT !.call = {f, "read", "write"},
                      !.arg = BufOf(name), !.val = name]
  /\ UNCHANGED <<plugins, inst, nextId, mute, mcommands, replCmds, promptOn>>

ApiSocat(h, name, out, ok) == Piped("socat", h, name, out, ok)
ApiPipe(h, name, out, ok) == Piped("pipe", h, name, out, ok)

\* ------------------------------------------------------------- next state
AllResps == Resps \cup {PromptErr, NoPrompt}
Infos == PluginNames \cup {"", "badjson"}

\* the whole machine
Next ==
  \/ \E path \in Paths : Load(path)
  \/ ReloadLoad
  \/ LoadResume
  \/ \E n \in PluginNames : Unload(n)
  \/ UnloadResume
  \/ \E n \in PluginNames : Reload(n)
  \/ Shutdown
  \/ ShutdownStep
  \/ ShutdownEnd
  \/ \E rd \in {"ok", "notexist", "error"}, es \in DirListings : LoadAll(rd, es)
  \/ LoadAllStep
  \/ LoadAllNext
  \/ LoadAllEnd
  \/ \E n \in PluginNames : ToggleMute(n)
  \/ \E hk \in HookNames, b \in BufKeys, v \in Values : RunHook(hk, b, v)
  \/ HookVisit
  \/ HookInvoke
  \/ HookResume
  \/ HookFinish
  \/ \E c \in CmdKeys, args \in CmdArgs : RunCommand(c, args)
  \/ CmdExpand
  \/ CmdCall
  \/ \E v \in Values : SendPrompt(v)
  \/ AiSend
  \/ AiReturn
  \/ GuestReturn
  \/ GuestError
  \/ \E h \in Handles, info \in Infos, caps \in CapArgs, resp \in AllResps :
       ApiRegister(h, info, caps, resp)
  \/ \E h \in Handles, hk \in HookNames, cb \in Cbs, resp \in AllResps :
       ApiHook(h, hk, cb, resp)
  \/ \E h \in Handles, l \in Locals, fn \in Fns \cup {Nil} : ApiCommand(h, l, fn)
  \/ \E h \in Handles : ApiPrint(h)
  \/ \E h \in Handles : ApiFormat(h)
  \/ \E h \in Handles, ok \in BOOLEAN : ApiHttp(h, ok)
  \/ \E h \in Handles, b \in BufArgs : ApiRead(h, b)
  \/ \E h \in Handles, b \in BufArgs, v \in Values : ApiWrite(h, b, v)
  \/ \E h \in Handles, b \in BufArgs, r \in Values \cup {PromptErr, NoPrompt} :
       ApiPrompt(h, b, r)
  \/ \E h \in Handles, b \in BufArgs, r \in Values \cup {PromptErr} : ApiGen(h, b, r)
  \/ \E h \in Handles, b \in BufArgs, v \in Values, ok \in BOOLEAN :
       ApiSocat(h, b, v, ok)
  \/ \E h \in Handles, b \in BufArgs, v \in Values, ok \in BOOLEAN :
       ApiPipe(h, b, v, ok)

Spec == Init /\ [][Next]_vars

\* the REPL's configuration: SetPromptFunc is called before any plugin loads
InitPrompt == Init /\ promptOn

\* ---- the life cycle of up to MaxLoads instances: scripts that register
\* without a capability list, add one hook and one command; the host loads,
\* unloads, reloads, runs commands and hooks.  No buffer I/O.
LifeInfos == PluginNames \cup {""}
LifeCaps == {c \in CapArgs : ~c.given}
LifeResps == {"y", "n", PromptErr, NoPrompt}

NextLife ==
  \/ Load("p1")
  \/ ReloadLoad
  \/ LoadResume
  \/ \E n \in PluginNames : Unload(n)
  \/ UnloadResume
  \/ \E n \in PluginNames : Reload(n)
  \/ RunHook("before_write", "%g", "v")
  \/ HookVisit
  \/ HookInvoke
  \/ HookResume
  \/ HookFinish
  \/ \E c \in CmdKeys : RunCommand(c, <<>>)
  \/ GuestReturn
  \/ GuestError
  \/ \E h \in Handles, info \in LifeInfos, caps \in LifeCaps, resp \in LifeResps :
       ApiRegister(h, info, caps, resp)
  \/ \E h \in Handles, resp \in LifeResps : ApiHook(h, "before_write", "c1", resp)
  \/ \E h \in Handles, fn \in {"f1", Nil} : ApiCommand(h, "run", fn)

SpecLife == InitPrompt /\ [][NextLife]_vars

\* ---- loading up to MaxLoads scripts that register under any name with any
\* capability list and add a command; the host unloads, reloads and runs
\* commands.  No hooks, no buffer I/O.
NextLoad ==
  \/ Load("p1")
  \/ ReloadLoad
  \/ LoadResume
  \/ \E n \in PluginNames : Unload(n)
  \/ UnloadResume
  \/ \E n \in PluginNames : Reload(n)
  \/ \E c \in CmdKeys : RunCommand(c, <<>>)
  \/ GuestReturn
  \/ GuestError
  \/ \E h \in Handles, info \in LifeInfos, caps \in CapArgs, resp \in LifeResps :
       ApiRegister(h, info, caps, resp)
  \/ \E h \in Handles, fn \in {"f1", Nil} : ApiCommand(h, "run", fn)

SpecLoad == InitPrompt /\ [][NextLoad]_vars

\* ---- one instance and the whole guest API: the script registers as "a"
\* with any capability list and calls every API function with any handle
GateResps == {"y", " Y", "n", PromptErr, NoPrompt}

NextGate ==
  \/ nextId = 1 /\ Load("p1")
  \/ LoadResume
  \/ Unload("a")
  \/ UnloadResume
  \/ ToggleMute("a")
  \/ RunHook("before_write", "%g", "v")
  \/ HookVisit
  \/ HookInvoke
  \/ HookResume
  \/ HookFinish
  \/ RunCommand("a.run", <<>>)
  \/ GuestReturn
  \/ GuestError
  \/ \E h \in Handles, caps \in CapArgs, resp \in GateResps :
       ApiRegister(h, "a", caps, resp)
  \/ \E h \in Handles, resp \in GateResps : ApiHook(h, "before_write", "c1", resp)
  \/ \E h \in Handles, fn \in {"f1", Nil} : ApiCommand(h, "run", fn)
  \/ \E h \in Handles : ApiPrint(h)
  \/ \E h \in Handles : ApiFormat(h)
  \/ \E h \in Handles, ok \in BOOLEAN : ApiHttp(h, ok)
  \/ \E h \in Handles : ApiRead(h, "foo")
  \/ \E h \in Handles : ApiWrite(h, "foo", "v")
  \/ \E h \in Handles, r \in {"v", PromptErr, NoPrompt} : ApiPrompt(h, "foo", r)
  \/ \E h \in Handles, r \in {"v", PromptErr} : ApiGen(h, "foo", r)
  \/ \E h \in Handles, ok \in BOOLEAN : ApiSocat(h, "foo", "v", ok)
  \/ \E h \in Handles, ok \in BOOLEAN : ApiPipe(h, "foo", "v", ok)

SpecGate == Init /\ [][NextGate]_vars

\* ---- hook chains: up to MaxLoads instances that register under any name
\* and add any callbacks to before_write, in init or from a callback; a
\* callback may return any value, raise, or write a buffer (which runs the
\* hook again, nested); the host loads, unloads and runs the hook
NextHook ==
  \/ Load("p1")
  \/ LoadResume
  \/ \E n \in PluginNames : Unload(n)
  \/ UnloadResume
  \/ RunHook("before_write", "%g", "v")
  \/ HookVisit
  \/ HookInvoke
  \/ HookResume
  \/ HookFinish
  \/ GuestReturn
  \/ GuestError
  \/ \E info \in PluginNames, caps \in LifeCaps :
       InGuest /\ Top.role = "init" /\ ApiRegister(Caller, info, caps, NoPrompt)
  \/ \E cb \in Cbs, resp \in {"y", "n"} :
       InGuest /\ ApiHook(Caller, "before_write", cb, resp)
  \/ InGuest /\ ApiWrite(Caller, "%g", "w")

SpecHook == InitPrompt /\ [][NextHook]_vars

\* ---- buffer traffic of one instance: the script registers under any name,
\* adds a before_write callback and a command, and calls read, write,
\* prompt, gen, socat and pipe with names with and without the sigil
NextBuf ==
  \/ nextId = 1 /\ Load("p1")
  \/ LoadResume
  \/ HookVisit
  \/ HookInvoke
  \/ HookResume
  \/ HookFinish
  \/ \E c \in CmdKeys : RunCommand(c, <<>>)
  \/ GuestReturn
  \/ GuestError
  \/ \E info \in PluginNames, caps \in LifeCaps :
       InGuest /\ Top.role = "init" /\ ApiRegister(Caller, info, caps, NoPrompt)
  \/ InGuest /\ ApiHook(Caller, "before_write", "c1", "y")
  \/ InGuest /\ ApiCommand(Caller, "run", "f1")
  \/ \E b \in BufArgs : InGuest /\ ApiRead(Caller, b)
  \/ \E b \in BufArgs, v \in Values : InGuest /\ ApiWrite(Caller, b, v)
  \/ \E b \in BufArgs, r \in {"v", PromptErr} : InGuest /\ ApiPrompt(Caller, b, r)
  \/ \E b \in BufArgs, r \in {"v", PromptErr} : InGuest /\ ApiGen(Caller, b, r)
  \/ \E b \in BufArgs, ok \in BOOLEAN : InGuest /\ ApiSocat(Caller, b, "v", ok)
  \/ \E b \in BufArgs, ok \in BOOLEAN : InGuest /\ ApiPipe(Caller, b, "v", ok)

SpecBuf == InitPrompt /\ [][NextBuf]_vars

\* ---- commands: up to MaxLoads instances that register (and re-register)
\* under any name, bind the command "run" to whatever the global holds, add
\* an after_read callback and write the buffer "%g"; the host loads,
\* unloads and runs commands with arguments that may hold the token "%g"
NextCmd ==
  \/ Load("p1")
  \/ LoadResume
  \/ \E n \in PluginNames : Unload(n)
  \/ UnloadResume
  \/ \E c \in CmdKeys, args \in CmdArgs : RunCommand(c, args)
  \/ CmdExpand
  \/ CmdCall
  \/ HookVisit
  \/ HookInvoke
  \/ HookResume
  \/ HookFinish
  \/ GuestReturn
  \/ GuestError
  \/ \E info \in PluginNames, caps \in LifeCaps :
       InGuest /\ ApiRegister(Caller, info, caps, NoPrompt)
  \/ \E fn \in Fns \cup {Nil} : InGuest /\ ApiCommand(Caller, "run", fn)
  \/ InGuest /\ ApiHook(Caller, "after_read", "c1", "y")
  \/ InGuest /\ ApiWrite(Caller, "%g", "v")

SpecCmd == InitPrompt /\ [][NextCmd]_vars

\* ---- consent: a script that registers as "a" with any capability list,
\* adds a before_write callback and a command, and is answered "y", "n" or
\* with a prompt error; the host loads it, unloads it, reloads it and runs
\* its command
NextConsent ==
  \/ Load("p1")
  \/ ReloadLoad
  \/ LoadResume
  \/ Unload("a")
  \/ UnloadResume
  \/ Reload("a")
  \/ RunCommand("a.run", <<>>)
  \/ GuestReturn
  \/ GuestError
  \/ \E caps \in CapArgs, resp \in {"y", "n", NoPrompt} :
       InGuest /\ ApiRegister(Caller, "a", caps, resp)
  \/ \E resp \in {"y", "n", PromptErr} :
       InGuest /\ ApiHook(Caller, "before_write", "c1", resp)
  \/ InGuest /\ ApiCommand(Caller, "run", "f1")

SpecConsent == InitPrompt /\ [][NextConsent]_vars

\* ---- loading a directory: scripts that fail to load (no init, an error
\* in init, no register call) or register under any name and add a command
\* and a before_write callback; the host calls LoadAll and unloads
NextBatch ==
  \/ \E rd \in {"ok", "notexist", "error"}, es \in DirListings : LoadAll(rd, es)
  \/ LoadAllStep
  \/ LoadAllNext
  \/ LoadAllEnd
  \/ LoadResume
  \/ \E n \in PluginNames : Unload(n)
  \/ UnloadResume
  \/ GuestReturn
  \/ GuestError
  \/ \E info \in LifeInfos, caps \in LifeCaps :
       InGuest /\ ApiRegister(Caller, info, caps, NoPrompt)
  \/ \E resp \in {"y", "n"} : InGuest /\ ApiHook(Caller, "before_write", "c1", resp)
  \/ \E fn \in {"f1", Nil} : InGuest /\ ApiCommand(Caller, "run", fn)

SpecBatch == InitPrompt /\ [][NextBatch]_vars

\* ---- prompt: one instance that adds callbacks to before_write and
\* after_read, writes the buffer "%g" and calls prompt, in init or from its
\* command; the user answers with a text, with the token "%g", or the
\* prompt collaborator fails
NextPrompt ==
  \/ nextId = 1 /\ Load("p1")
  \/ LoadResume
  \/ HookVisit
  \/ HookInvoke
  \/ HookResume
  \/ HookFinish
  \/ RunCommand("a.run", <<>>)
  \/ GuestReturn
  \/ GuestError
  \/ \E caps \in LifeCaps :
       InGuest /\ Top.role = "init" /\ ApiRegister(Caller, "a", caps, NoPrompt)
  \/ \E hk \in {"before_write", "after_read"} :
       InGuest /\ ApiHook(Caller, hk, "c1", "y")
  \/ InGuest /\ ApiCommand(Caller, "run", "f1")
  \/ InGuest /\ ApiWrite(Caller, "%g", "w")
  \/ \E b \in BufArgs, r \in {"v", "%g", PromptErr} :
       InGuest /\ ApiPrompt(Caller, b, r)

SpecPrompt == InitPrompt /\ [][NextPrompt]_vars

\* ---- the hooks around a request to the model: up to MaxLoads instances
\* that add callbacks to before_openai and after_openai, in init or from a
\* callback; the host loads, unloads and sends a prompt, and the request
\* succeeds with any reply or fails
NextAi ==
  \/ Load("p1")
  \/ LoadResume
  \/ \E n \in PluginNames : Unload(n)
  \/ UnloadResume
  \/ SendPrompt("v")
  \/ AiSend
  \/ AiReturn
  \/ HookVisit
  \/ HookInvoke
  \/ HookResume
  \/ HookFinish
  \/ GuestReturn
  \/ GuestError
  \/ \E info \in PluginNames, caps \in LifeCaps :
       InGuest /\ Top.role = "init" /\ ApiRegister(Caller, info, caps, NoPrompt)
  \/ \E hk \in {"before_openai", "after_openai"} :
       InGuest /\ ApiHook(Caller, hk, "c1", "y")

SpecAi == InitPrompt /\ [][NextAi]_vars

\* ---- the store: one instance that adds before_write callbacks, in init
\* or from a callback, and writes buffers of its own, the shared buffer
\* "%g", a tmux buffer, a pane and the sink
StoreArgs == {"foo", "%g", NullBuffer} \cup PaneIDs \cup TmuxBuffers

NextStore ==
  \/ nextId = 1 /\ Load("p1")
  \/ LoadResume
  \/ HookVisit
  \/ HookInvoke
  \/ HookResume
  \/ HookFinish
  \/ RunCommand("a.run", <<>>)
  \/ GuestReturn
  \/ GuestError
  \/ \E caps \in LifeCaps :
       InGuest /\ Top.role = "init" /\ ApiRegister(Caller, "a", caps, NoPrompt)
  \/ \E cb \in Cbs : InGuest /\ ApiHook(Caller, "before_write", cb, "y")
  \/ InGuest /\ ApiCommand(Caller, "run", "f1")
  \/ \E b \in StoreArgs, v \in Values : InGuest /\ ApiWrite(Caller, b, v)

SpecStore == InitPrompt /\ [][NextStore]_vars

\* ---- command arguments: one instance that binds the command "run", adds
\* an after_read callback and writes the buffer "%g"; the host runs the
\* command with arguments without a token, that are a token, or that hold
\* one after other text
ArgLists == {<<"x">>, <<"%g", "x">>, <<"x", "%g">>, <<"x%g">>}

NextArgs ==
  \/ nextId = 1 /\ Load("p1")
  \/ LoadResume
  \/ \E args \in ArgLists : RunCommand("a.run", args)
  \/ CmdExpand
  \/ CmdCall
  \/ HookVisit
  \/ HookInvoke
  \/ HookResume
  \/ HookFinish
  \/ GuestReturn
  \/ GuestError
  \/ \E caps \in LifeCaps :
       InGuest /\ Top.role = "init" /\ ApiRegister(Caller, "a", caps, NoPrompt)
  \/ InGuest /\ ApiCommand(Caller, "run", "f1")
  \/ InGuest /\ ApiHook(Caller, "after_read", "c1", "y")
  \/ \E v \in Values : InGuest /\ ApiWrite(Caller, "%g", v)

SpecArgs == InitPrompt /\ [][NextArgs]_vars

\* ---- shutting down: up to MaxLoads scripts that register under any
\* name, add a command and a before_write callback, define shutdown or not,
\* and may fail in init; the host loads them and calls Shutdown
NextShut ==
  \/ Load("p1")
  \/ LoadResume
  \/ Shutdown
  \/ ShutdownStep
  \/ ShutdownEnd
  \/ UnloadResume
  \/ GuestReturn
  \/ GuestError
  \/ \E info \in PluginNames, caps \in LifeCaps :
       InGuest /\ ApiRegister(Caller, info, caps, NoPrompt)
  \/ \E resp \in {"y", "n"} : InGuest /\ ApiHook(Caller, "before_write", "c1", resp)
  \/ \E fn \in {"f1", Nil} : InGuest /\ ApiCommand(Caller, "run", fn)

SpecShut == InitPrompt /\ [][NextShut]_vars

\* ---- muting across the life cycle: a script that registers as "a" and
\* prints, in init, in its command and in shutdown; the host loads it,
\* unloads it, reloads it and toggles the mute flag of either name
NextMute ==
  \/ Load("p1")
  \/ ReloadLoad
  \/ LoadResume
  \/ Unload("a")
  \/ UnloadResume
  \/ Reload("a")
  \/ \E n \in PluginNames : ToggleMute(n)
  \/ RunCommand("a.run", <<>>)
  \/ GuestReturn
  \/ GuestError
  \/ \E caps \in LifeCaps : InGuest /\ ApiRegister(Caller, "a", caps, NoPrompt)
  \/ InGuest /\ ApiCommand(Caller, "run", "f1")
  \/ InGuest /\ ApiPrint(Caller)

SpecMute == InitPrompt /\ [][NextMute]_vars

\* ------------------------------------------------------------- properties
\* C1: a Load whose script registers a name that is already loaded fails
\* with an error and leaves the plugin loaded under that name as it was
DuplicateNameRejected ==
  [][(stack # <<>> /\ Top.k = "load" /\ last'.op = "LoadEnd"
        /\ Lookup(inst[Top.p].name) # NoInst)
       => (last'.err # "" /\ plugins' = plugins)]_vars

\* C2: a Load that failed leaves no partial registration: no entry of the
\* plugin table, of the command registry or of the REPL's command table
\* belongs to an instance whose Load failed
FailedLoadLeavesNothing ==
  \A i \in Ids :
     inst[i].L = "failed" =>
        /\ \A n \in PluginNames : plugins[n] # i
        /\ \A k \in CmdKeys : mcommands[k] # i
        /\ \A k \in replCmds : mcommands[k] # i

\* C3: hook and command called by an instance whose allow-list lacks them
\* raise an error and register nothing, whatever the prompt answered
HookAndCommandGated ==
  [][(InGuest /\ last'.op \in {"hook", "command"} /\ last'.own
        /\ last'.ans \in {NoPrompt, "y"}
        /\ inst[Caller].restricted /\ last'.op \notin inst[Caller].allowed)
       => /\ last'.err # ""
          /\ UNCHANGED <<inst, mcommands, replCmds>>]_vars

\* C4: a gated function called by an instance whose allow-list lacks it
\* raises an error, calls no collaborator and leaves the buffer store and
\* the manager as they were
GatedCallRejected ==
  [][(InGuest /\ last'.op \in Gated
        /\ inst[Caller].restricted /\ last'.op \notin inst[Caller].allowed)
       => /\ last'.err \in {"not allowed", "invalid handle"}
          /\ last'.call = {}
          /\ stack' = Pop(stack)
          /\ UNCHANGED <<buffers, plugins, inst, mcommands, replCmds, mute>>]_vars

GatedCallRejectedSeen ==
  /\ last.op \in Gated /\ last.own /\ last.err = "not allowed"
  /\ \E i \in Ids : inst[i].restricted /\ inst[i].allowed # {}

\* C5: a register call without a capability list, or with an empty one,
\* leaves the instance unrestricted: the allow-list check then passes for
\* every gated function
NoListMeansUnrestricted ==
  [][(InGuest /\ last'.op = "register" /\ last'.err = ""
        /\ last'.arg \in {"absent", "empty"})
       => \A f \in Gated : CapAllowed(inst'[Caller], f)]_vars

\* C6: with the prompt collaborator installed, a capability list is
\* activated and a hook is added only on an affirmative answer; an error of
\* the prompt never lets the call proceed
OnlyAffirmativeProceeds ==
  [][(InGuest /\ promptOn /\ last'.err = "" /\ stack' = stack
        /\ \/ last'.op = "hook"
           \/ last'.op = "register" /\ last'.arg = "list")
       => Affirmative(last'.ans)]_vars

\* C7: when the capability prompt is declined during Load, Load returns the
\* error and records no plugin: the plugin table (what List reports) is as
\* it was and does not hold the instance, then or at any later time
DeclinedLoadFails ==
  /\ [][(stack # <<>> /\ Top.k = "load" /\ ret = ErrRet("api denied")
           /\ last'.op = "LoadEnd")
          => /\ last'.err = "api denied"
             /\ plugins' = plugins
             /\ inst'[Top.p].L = "failed"]_vars
  /\ [](\A i \in Ids : inst[i].L = "failed" =>
                         \A n \in PluginNames : plugins[n] # i)

DeclinedLoadSeen ==
  /\ last.op = "LoadEnd" /\ last.err = "api denied"
  /\ \E n \in PluginNames : plugins[n] # NoInst

\* the instance whose hook call is declined by the step that raises
\* "hook denied": the caller, or the caller below the Unload that ends
Decliner == IF Top.k = "unload" THEN stack[Len(stack) - 1].p ELSE Top.p

\* C8: when the hook prompt is declined the calling plugin is unloaded
\* entirely: it is no longer in the plugin table and owns no command
DeclinedHookUnloads ==
  [][(stack # <<>> /\ last'.err = "hook denied")
       => /\ \A n \in PluginNames : plugins'[n] # Decliner
          /\ \A k \in CmdKeys : mcommands'[k] # Decliner]_vars

\* C9: an API function called with a handle that is not the caller's raises
\* "invalid handle" and changes nothing
WrongHandleRejected ==
  [][(InGuest /\ last'.op \in ApiNames /\ ~last'.own)
       => /\ last'.err = "invalid handle"
          /\ last'.call = {}
          /\ stack' = Pop(stack)
          /\ UNCHANGED <<buffers, plugins, inst, mcommands, replCmds, mute>>]_vars

WrongHandleSeen ==
  /\ ~last.own /\ last.op = "hook" /\ last.err = "invalid handle"
  /\ stack # <<>> /\ Top.k = "load"

\* C10: a RunHook entered after an Unload never reaches the unloaded
\* instance, and HasHook is true only through a plugin that is not unloaded
UnloadedNeverRuns ==
  /\ \A j \in 1..Len(stack) :
        stack[j].k = "hook" => stack[j].cur \notin stack[j].dead
  /\ \A hk \in HookNames :
        HasHook(hk) =>
          \E n \in PluginNames :
             /\ plugins[n] # NoInst
             /\ inst[plugins[n]].L # "unloaded"
             /\ Len(inst[plugins[n]].hooks[hk]) > 0

UnloadedNeverRunsSeen ==
  /\ Len(stack) >= 2
  /\ stack[1].k = "hook" /\ stack[1].dead # {}
  /\ stack[2].k = "guest" /\ stack[2].role = "cb"

IsPrefix(s, t) == Len(s) <= Len(t) /\ SubSeq(t, 1, Len(s)) = s

\* C11: RunHook folds its data through the callbacks: each callback is
\* passed the value threaded so far, a value a callback returns becomes the
\* threaded value, and RunHook returns the threaded value when, for every
\* instance in the table, every callback registered at entry has been
\* invoked exactly once in registration order; with no callback invoked it
\* returns its input
RunHookFolds ==
  [][/\ (stack # <<>> /\ Top.k = "hook" /\ last'.op = "invoke")
          => /\ last'.val = Top.out
             /\ last'.arg = Head(Top.fns)
     /\ (stack # <<>> /\ Top.k = "hook" /\ last'.op = "resume" /\ ret.st = "ok")
          => stack'[Len(stack)].out = ret.val
     /\ (stack # <<>> /\ Top.k = "hook" /\ last'.op = "RunHookEnd")
          => /\ last'.val = Top.out
             /\ \A n \in PluginNames :
                   plugins[n] # NoInst =>
                     /\ IsPrefix(Top.reg[plugins[n]], Top.ran[plugins[n]])
                     /\ IsPrefix(Top.ran[plugins[n]],
                                 inst[plugins[n]].hooks[Top.hk])
             /\ (\A i \in Ids : Top.ran[i] = <<>>) => last'.val = Top.inp]_vars

\* a RunHook by the host that has invoked two callbacks of one instance and
\* one of another, and threads another value than its input
RunHookFoldsSeen ==
  /\ stack # <<>> /\ Top.k = "hook" /\ Top.then = "host" /\ Top.fns = <<>>
  /\ Top.out # Top.inp
  /\ \E i, j \in Ids : i # j /\ Len(Top.ran[i]) = 2 /\ Len(Top.ran[j]) = 1

NoDup(s) == \A a, b \in 1..Len(s) : a # b => s[a] # s[b]

InList(s, x) == \E a \in 1..Len(s) : s[a] = x

\* C13: registering a callback again under the same hook of the same
\* instance changes nothing in the manager and announces nothing; no hook
\* list ever holds a callback twice, and no RunHook invokes one twice
HookIdempotent ==
  /\ [](\A i \in Ids : \A hk \in HookNames : NoDup(inst[i].hooks[hk]))
  /\ [](\A j \in 1..Len(stack) : \A i \in Ids : NoDup(stack[j].ran[i]))
  /\ [][(InGuest /\ last'.op = "hook" /\ last'.err = "" /\ stack' = stack
           /\ InList(inst[Caller].hooks[last'.arg], last'.val))
          => /\ UNCHANGED <<plugins, inst, mcommands, replCmds, buffers, mute>>
             /\ "print" \notin last'.call]_vars

\* a second registration of the one callback an instance has went through
HookIdempotentSeen ==
  /\ InGuest /\ last.op = "hook" /\ last.err = "" /\ last.val = "c1"
  /\ "print" \notin last.call
  /\ inst[Caller].hooks["before_write"] = <<"c1">>

BufferApis == {"read", "write", "prompt", "gen", "socat", "pipe"}

\* the name the store is to see for a name the script of plugin n supplied
Namespaced(n, name) ==
  CASE name = "foo" -> "%" \o n \o "_foo"
    [] name = "%g" -> "%g"

\* C14: the buffer name read, write, prompt, gen, socat and pipe hand to
\* the buffer collaborators is "%<plugin>_<name>" for a name without the
\* sigil and the name itself for one with it: that is the buffer the
\* collaborator reads or writes, the only other one written being the
\* output buffer "%@" of socat and pipe
BufferNamesNamespaced ==
  /\ [][(InGuest /\ last'.op \in BufferApis /\ last'.call # {} /\ last'.ans # PromptErr
           /\ last'.err = "")
          => /\ last'.arg = Namespaced(inst[Caller].name, last'.val)
             /\ stack' # stack =>
                   /\ stack'[Len(stack')].k = "hook"
                   /\ stack'[Len(stack')].buf \in
                         IF last'.op \in {"socat", "pipe"}
                         THEN {last'.arg, "%@"} ELSE {last'.arg}]_vars
  /\ [][\A b \in BufKeys :
          buffers'[b] # buffers[b] =>
             /\ stack # <<>> /\ Top.k = "hook" /\ Top.buf = b
             /\ \/ b = "%@"
                \/ \E n \in PluginNames \cup {""}, a \in BufArgs :
                      b = Namespaced(n, a)]_vars

\* write(h, "foo", ...) by plugin "a" has been stored at "%a_foo", and a
\* write with the sigil at "%g"
BufferNamesNamespacedSeen ==
  /\ buffers["%a_foo"] # Nil /\ buffers["%g"] # Nil
  /\ last.op = "RunHookEnd" /\ last.arg = "before_write"
  /\ \A b \in BufKeys \ ({"%a_foo", "%g"} \cup TmuxBuffers) : buffers[b] = Nil

UnknownCommandNotFound ==
  [][(Idle /\ last'.op = "RunCommand" /\ mcommands[last'.arg] = NoInst)
       => /\ last'.err = "command not found"
          /\ last'.call = {} /\ last'.to = NoInst
          /\ stack' = <<>>
          /\ UNCHANGED <<plugins, inst, mcommands, replCmds, buffers, mute>>]_vars

\* not found although another command is registered
UnknownCommandNotFoundSeen ==
  /\ last.op = "RunCommand" /\ last.err = "command not found"
  /\ last.args # <<>>
  /\ \E k \in CmdKeys : mcommands[k] # NoInst

\* C17: command(handle, local) for a qualified name that is already in the
\* command registry raises "command exists": the entry keeps its owner, the
\* owner its function, and the command observer is not called
CommandCollisionRejected ==
  [][(/\ InGuest /\ last'.op = "command" /\ last'.own
      /\ inst[Caller].name # ""
      /\ mcommands[Qualified(inst[Caller].name, last'.arg)] # NoInst)
       => /\ last'.err = "command: command exists"
          /\ last'.call = {}
          /\ stack' = Pop(stack)
          /\ UNCHANGED <<plugins, inst, mcommands, replCmds, buffers, mute>>]_vars

\* an instance was refused a name that another instance owns
CommandCollisionRejectedSeen ==
  /\ last.op = "command" /\ last.err = "command: command exists"
  /\ stack # <<>> /\ Top.k = "load"
  /\ inst[Top.p].name # ""
  /\ mcommands[Qualified(inst[Top.p].name, "run")] \notin {NoInst, Top.p}

\* Unload of instance q found under name has done its work
Unloaded(q, name) ==
  /\ plugins'[name] = NoInst
  /\ \A n \in PluginNames : plugins'[n] # q
  /\ \A n \in PluginNames \ {name} : plugins'[n] = plugins[n]
  /\ \A k \in CmdKeys :
        IF mcommands[k] = q
        THEN mcommands'[k] = NoInst /\ k \notin replCmds'
        ELSE mcommands'[k] = mcommands[k] /\ (k \in replCmds' <=> k \in replCmds)
  /\ inst'[q].L = "unloaded"

\* C19: Unload of a loaded name calls shutdown once if the script defined
\* it and, whether shutdown returned or raised, ends without an error with
\* every command of the instance out of the registry and of the observer's
\* table and the instance out of the plugin table; Unload of a name that is
\* not loaded returns an error and changes nothing
UnloadAlwaysSucceeds ==
  [][/\ (Idle /\ last'.op = "Unload" /\ Lookup(last'.arg) # NoInst)
          => LET q == Lookup(last'.arg) IN
             /\ last'.err = ""
             /\ IF inst[q].shut
                THEN /\ stack' = <<UnloadF(q, last'.arg, "host", ""),
                                   GuestF(q, "shutdown")>>
                     /\ UNCHANGED <<plugins, inst, mcommands, replCmds>>
                ELSE stack' = <<>> /\ Unloaded(q, last'.arg)
     /\ (stack # <<>> /\ Top.k = "unload" /\ last'.op = "UnloadEnd")
          => /\ Unloaded(Top.p, Top.name)
             /\ Top.then = "host" => last'.err = "" /\ stack' = <<>>
     /\ (Idle /\ last'.op = "Unload" /\ Lookup(last'.arg) = NoInst)
          => /\ last'.err = "plugin not loaded"
             /\ UNCHANGED <<plugins, inst, mcommands, replCmds, buffers, mute,
                            stack>>]_vars

\* an Unload by the host whose shutdown raised has ended; the instance's
\* command is gone, the other instance's is still there
UnloadAlwaysSucceedsSeen ==
  /\ last.op = "UnloadEnd" /\ last.val = "err" /\ last.err = ""
  /\ stack = <<>>
  /\ \E n \in PluginNames :
        /\ plugins[n] = NoInst /\ mcommands[Qualified(n, "run")] = NoInst
        /\ Qualified(n, "run") \notin replCmds
  /\ \E k \in CmdKeys : mcommands[k] # NoInst /\ k \in replCmds

\* C20: Reload of a name that is not loaded returns an error and changes
\* nothing; when the Load that Reload makes after the Unload fails, the
\* plugin stays unloaded: the plugin table is as the Unload left it and
\* neither it nor the command registry holds anything of the new instance
ReloadFailureStaysUnloaded ==
  [][/\ (Idle /\ last'.op = "Reload" /\ Lookup(last'.arg) = NoInst)
          => /\ last'.err = "plugin not loaded"
             /\ UNCHANGED <<plugins, inst, mcommands, replCmds, buffers, mute,
                            stack>>
     /\ (stack # <<>> /\ Top.k = "load" /\ Top.then = "reload"
           /\ last'.op = "LoadEnd" /\ last'.err # "")
          => /\ plugins' = plugins
             /\ \A n \in PluginNames : plugins'[n] # Top.p
             /\ \A k \in CmdKeys : mcommands'[k] # Top.p]_vars

\* C18: the function RunCommand invokes for a qualified name is the one the
\* global was bound to when command(...) registered that qualified name
BoundAtRegistration ==
  [][(last'.to # NoInst /\ inst[last'.to].L = "open")
       => last'.val = inst[last'.to].bound[last'.arg]]_vars

\* C12: an error a hook callback raises is discarded: the loop of RunHook
\* goes on with the threaded value and the callbacks still to call exactly
\* as they were, and RunHook by the host returns without an error
CallbackErrorSwallowed ==
  [][/\ (stack # <<>> /\ Top.k = "hook" /\ last'.op = "resume" /\ ret.st = "err")
          => /\ stack' = stack
             /\ ret' = NoRet
             /\ UNCHANGED <<plugins, inst, mcommands, replCmds, buffers, mute>>
     /\ (stack # <<>> /\ Top.k = "hook" /\ Top.then = "host"
           /\ last'.op = "RunHookEnd")
          => last'.err = "" /\ stack' = <<>>]_vars

\* the loop went on after an error with a callback still to call
CallbackErrorSwallowedSeen ==
  /\ stack # <<>> /\ Top.k = "hook" /\ Top.then = "host"
  /\ last.op = "resume" /\ last.arg = "err"
  /\ Top.fns # <<>> /\ Top.out = Top.inp

\* C21: no consent persists across loads: the instance a Load (that of
\* Reload included) creates starts with no capability set and no hook; an
\* instance gets a capability set only by a register call of its own and a
\* hook only by a hook call of its own, and with the prompt collaborator
\* installed each such call, and every register call with a non-empty list
\* and every hook call with the caller's handle, raises the prompt again
ConsentNotKept ==
  [][/\ (last'.op = "Load" /\ last'.err = "")
          => /\ ~inst'[nextId].restricted /\ inst'[nextId].allowed = {}
             /\ \A hk \in HookNames : inst'[nextId].hooks[hk] = <<>>
     /\ \A i \in Ids :
          /\ (inst'[i].restricted /\ inst[i].L = "open"
                /\ (~inst[i].restricted \/ inst'[i].allowed # inst[i].allowed))
               => /\ InGuest /\ Caller = i /\ last'.op = "register"
                  /\ (inst'[i].allowed # {})
                       => ("prompt" \in last'.call /\ Affirmative(last'.ans))
          /\ (\E hk \in HookNames :
                 inst[i].L = "open"
                   /\ Len(inst'[i].hooks[hk]) > Len(inst[i].hooks[hk]))
               => /\ InGuest /\ Caller = i /\ last'.op = "hook"
                  /\ "prompt" \in last'.call
     /\ (InGuest /\ last'.op = "register" /\ last'.own /\ last'.arg = "list")
          => "prompt" \in last'.call
     /\ (InGuest /\ last'.op = "hook" /\ last'.own)
          => "prompt" \in last'.call]_vars

\* the Load of a Reload, of a script that had been loaded before, asked
\* about the capability list again and was answered "n"
ConsentNotKeptSeen ==
  /\ last.op = "register" /\ last.arg = "list" /\ "prompt" \in last.call
  /\ last.ans = "n" /\ last.err = "api denied"
  /\ stack # <<>> /\ stack[1].k = "load" /\ stack[1].then = "reload"

\* C22: LoadAll hands every script of the directory to Load, in the order
\* of the listing; a script whose Load fails is skipped: the loop goes on
\* with the entries after it exactly as they were, and LoadAll returns no
\* error
LoadAllSkipsFailures ==
  [][/\ (stack # <<>> /\ Top.k = "loadall" /\ last'.op = "loaded")
          => /\ Len(stack') = Len(stack)
             /\ stack'[Len(stack)].args = Tail(Top.args)
             /\ stack'[Len(stack)].vals = Top.vals
     /\ (stack # <<>> /\ Top.k = "loadall" /\ last'.op = "LoadAllEnd")
          => /\ last'.err = "" /\ stack' = <<>>
             /\ last'.args = Scripts(Top.all)]_vars

\* LoadAll returned after the first script failed to load and the second
\* one was loaded
LoadAllSkipsFailuresSeen ==
  /\ last.op = "LoadAllEnd" /\ last.err = "" /\ last.args = <<"s1", "s2">>
  /\ inst[1].L = "failed"
  /\ \E n \in PluginNames : plugins[n] = 2 /\ inst[2].path = "s2"

\* C23: whenever the host can call it (no guest function is running),
\* List() holds one descriptor for each loaded instance, sorted by name, no
\* name empty and no name twice
ListSortedUnique ==
  Idle =>
    LET l == List IN
    /\ Len(l) = Cardinality({n \in PluginNames : plugins[n] # NoInst})
    /\ \A k \in 1..Len(l) : l[k] # ""
    /\ \A j, k \in 1..Len(l) : j < k => NameRank(l[j]) < NameRank(l[k])

\* C24: while the caller's name is muted, print (and the announcement
\* hook makes) does not reach the output collaborator; muting changes
\* nothing else: RunHook calls every callback it has queued and RunCommand
\* calls the command function of a muted instance; ToggleMute(name) flips
\* the flag of that name only and returns the new state, so that a second
\* ToggleMute restores it
MuteOnlySilencesPrint ==
  [][/\ (InGuest /\ last'.op \in {"print", "hook"}
           /\ inst[Caller].name \in PluginNames /\ mute[inst[Caller].name])
          => "print" \notin last'.call
     /\ (stack # <<>> /\ Top.k = "hook" /\ last'.op = "visit")
          => stack'[Len(stack)].fns =
               inst[stack'[Len(stack)].cur].hooks[Top.hk]
     /\ (stack # <<>> /\ Top.k = "hook" /\ Top.fns # <<>> /\ ret = NoRet)
          => /\ last'.op = "invoke" /\ last'.arg = Head(Top.fns)
             /\ stack'[Len(stack')] = GuestF(Top.cur, "cb")
     /\ (Idle /\ last'.op = "RunCommand" /\ mcommands[last'.arg] # NoInst
           /\ mute["a"] /\ inst[mcommands[last'.arg]].name = "a"
           /\ inst[mcommands[last'.arg]].commands["run"] # Nil)
          => /\ last'.err = "" /\ last'.to = mcommands[last'.arg]
             /\ stack' = <<GuestF(last'.to, "cmd")>>
     /\ (last'.op = "ToggleMute")
          => /\ mute'[last'.arg] = ~mute[last'.arg]
             /\ \A n \in PluginNames \ {last'.arg} : mute'[n] = mute[n]
             /\ (last'.val = "muted") <=> mute'[last'.arg]
             /\ (last'.val = "unmuted") <=> ~mute'[last'.arg]]_vars

\* a hook callback of a muted instance ran and its print was dropped
MuteOnlySilencesPrintSeen ==
  /\ InGuest /\ Top.role = "cb" /\ inst[Caller].name = "a" /\ mute["a"]
  /\ last.op = "print" /\ last.err = "" /\ last.call = {}

\* C25: HasHook(name) is true exactly when an instance of the plugin table
\* holds a callback under name; a RunHook entered while it is false has no
\* callback registered for it, and a RunHook with no callback registered at
\* its entry never invokes a guest callback
HasHookExact ==
  /\ [](\A hk \in HookNames :
          HasHook(hk) <=>
            \E i \in Ids : /\ \E n \in PluginNames : plugins[n] = i
                            /\ inst[i].hooks[hk] # <<>>)
  /\ [][/\ (Len(stack') = Len(stack) + 1 /\ stack'[Len(stack')].k = "hook")
             => (HasHook(stack'[Len(stack')].hk)
                   <=> \E i \in Ids : stack'[Len(stack')].reg[i] # <<>>)
        /\ (stack # <<>> /\ Top.k = "hook" /\ last'.op = "invoke")
             => \E i \in Ids : Top.reg[i] # <<>>
        /\ (stack # <<>> /\ Top.k = "hook" /\ last'.op = "RunHookEnd"
              /\ \A i \in Ids : Top.reg[i] = <<>>)
             => /\ \A i \in Ids : Top.ran[i] = <<>>
                /\ last'.val = Top.inp]_vars

\* a script that had added a callback in its init, and was not loaded yet,
\* wrote a buffer: HasHook was false and the write ran no callback
HasHookExactSeen ==
  /\ last.op = "RunHookEnd" /\ last.arg = "before_write" /\ last.val = "w"
  /\ ~HasHook("before_write")
  /\ InGuest /\ Top.role = "init"
  /\ inst[Caller].hooks["before_write"] # <<>>

HooksAroundRequest ==
  [][/\ (Idle /\ last'.op = "SendPrompt")
          => /\ Len(stack') = 2 /\ stack'[1].role = "before"
             /\ stack'[2].k = "hook" /\ stack'[2].hk = "before_openai"
             /\ stack'[2].inp = last'.val
     /\ (last'.op = "send")
          => /\ stack # <<>> /\ Top.k = "ai" /\ Top.role = "send"
             /\ last'.arg = Top.out
             /\ \A n \in PluginNames :
                   plugins[n] # NoInst =>
                      IsPrefix(Top.reg[plugins[n]], Top.ran[plugins[n]])
             /\ (\A i \in Ids : Top.ran[i] = <<>>) => last'.arg = Top.inp
     /\ (last'.op = "send" /\ last'.err # "") => stack' = <<>>
     /\ (last'.op = "send" /\ last'.err = "")
          => /\ Len(stack') = 2 /\ stack'[1].role = "after"
             /\ stack'[2].k = "hook" /\ stack'[2].hk = "after_openai"
             /\ stack'[2].inp = last'.val
     /\ (stack # <<>> /\ Top.k = "hook" /\ Top.then = "ai"
           /\ last'.op = "invoke")
          => /\ Top.hk = "before_openai" => stack[Len(stack) - 1].role = "before"
             /\ Top.hk = "after_openai" => stack[Len(stack) - 1].role = "after"
     /\ (last'.op = "SendPromptEnd")
          => /\ stack # <<>> /\ Top.k = "ai" /\ Top.role = "done"
             /\ last'.val = Top.out /\ last'.err = ""
             /\ \A n \in PluginNames :
                   plugins[n] # NoInst =>
                      IsPrefix(Top.reg[plugins[n]], Top.ran[plugins[n]])
             /\ (\A i \in Ids : Top.ran[i] = <<>>) => last'.val = Top.data]_vars

\* a request that failed after a before_openai callback had changed the
\* prompt it carried, while an after_openai callback was registered
HooksAroundRequestSeen ==
  /\ last.op = "send" /\ last.err # "" /\ "http" \in last.call
  /\ last.arg = "w" /\ Idle
  /\ HasHook("after_openai")

\* C28: whatever the name, a value written through writeBuffer reaches its
\* buffer only as the result of RunHook("before_write", buffer, value) over
\* the callbacks registered then: a buffer changes only when such a run
\* ends, and to what the run returned, or, with no before_write callback
\* registered, to the value as it was written
WriteGoesThroughHook ==
  [][\A b \in BufKeys :
       buffers'[b] # buffers[b]
         => \/ /\ stack # <<>> /\ Top.k = "hook" /\ Top.hk = "before_write"
               /\ Top.buf = b /\ last'.op = "RunHookEnd"
               /\ buffers'[b] = Top.out
            \/ ~HasHook("before_write")]_vars

HandlesFresh ==
  /\ [](\A i, j \in Ids :
          (i # j /\ inst[i].handle # NoInst /\ inst[j].handle # NoInst)
            => inst[i].handle # inst[j].handle)
  /\ [](\A p \in Ids :
          inst[p].handle # NoInst
            => \A k \in 1..(p - 1) : ~HandleOk(p, Mint(k)))
  /\ [][/\ (last'.op = "Load" /\ last'.err = "")
             => /\ inst'[nextId].handle # NoInst
                /\ \A k \in 1..(nextId - 1) : inst'[nextId].handle # Mint(k)
        /\ \A i \in Ids :
             (inst[i].handle # NoInst
                /\ Refd(i, plugins', mcommands', stack'))
               => inst'[i].handle = inst[i].handle
        /\ (InGuest /\ last'.op \in ApiNames /\ ~last'.own)
             => /\ last'.err = "invalid handle" /\ stack' = Pop(stack)
                /\ UNCHANGED <<plugins, mcommands, replCmds, buffers, mute>>
                /\ inst'[Caller].name = inst[Caller].name
                /\ inst'[Caller].hooks = inst[Caller].hooks
                /\ inst'[Caller].commands = inst[Caller].commands]_vars

\* the instance the Load of a Reload created, the second of the run, has
\* rejected a call made with a handle that is not its own
HandlesFreshSeen ==
  /\ last.err = "invalid handle" /\ ~last.own
  /\ stack # <<>> /\ stack[1].k = "load" /\ stack[1].then = "reload"
  /\ stack[1].p = 2 /\ inst[2].handle = Mint(2)

\* C31: no dangling commands: whenever the host can call it (no call is in
\* progress), every qualified name of the command registry is owned by an
\* instance that is in the plugin table
NoDanglingCommands ==
  Idle =>
    \A k \in CmdKeys :
       mcommands[k] # NoInst => \E n \in PluginNames : plugins[n] = mcommands[k]

\* C32: whenever the host can call it, each instance of the plugin table is
\* stored under the name of its descriptor, so that Unload and Reload of a
\* name List() returns find that instance, and RunCommand of a name the
\* instance owns finds the function bound to it
TableKeyedByName ==
  Idle =>
    /\ \A n \in PluginNames :
          plugins[n] # NoInst => inst[plugins[n]].name = n
    /\ \A k \in CmdKeys :
          (mcommands[k] # NoInst /\ inst[mcommands[k]].L = "open")
            => LET l == TrimPrefix(k, inst[mcommands[k]].name \o ".")
               IN l \in Locals /\ inst[mcommands[k]].commands[l] # Nil

\* C33: no guest function is invoked on an interpreter that was closed:
\* the callback RunHook invokes, the function RunCommand calls and the
\* shutdown function Unload calls belong to an instance whose interpreter
\* is open
NoCallOnClosedInterpreter ==
  [][/\ (stack # <<>> /\ Top.k = "hook" /\ last'.op = "invoke")
          => inst[Top.cur].L = "open"
     /\ (last'.to # NoInst) => inst[last'.to].L = "open"
     /\ (stack' # <<>> /\ Len(stack') > Len(stack)
           /\ stack'[Len(stack')].k = "guest"
           /\ stack'[Len(stack')].role = "shutdown")
          => inst[stack'[Len(stack')].p].L = "open"]_vars

\* C34: a declined hook prompt takes no instance other than the one whose
\* hook call was declined out of the plugin table, and no command of
\* another instance out of the registry
DeclineUnloadsOnlyCaller ==
  [][(/\ stack # <<>>
      /\ \/ Top.k = "guest" /\ last'.op = "hook"
         \/ Top.k = "unload" /\ Top.then = "hookdeny" /\ last'.op = "UnloadEnd")
       => \A i \in Ids \ {Decliner} :
             /\ \A n \in PluginNames : plugins[n] = i => plugins'[n] = i
             /\ \A k \in CmdKeys : mcommands[k] = i => mcommands'[k] = i]_vars

\* C36: when Shutdown has returned the manager holds nothing of any plugin:
\* the plugin table is empty (List() is empty), HasHook is false for every
\* hook name, the command registry is empty, and every command the
\* add-observer was told about has been reported to the remove-observer
ShutdownLeavesNothing ==
  last.op = "ShutdownEnd" =>
    /\ \A n \in PluginNames : plugins[n] = NoInst
    /\ List = <<>>
    /\ \A hk \in HookNames : ~HasHook(hk)
    /\ \A k \in CmdKeys : mcommands[k] = NoInst
    /\ replCmds = {}

\* the instance an Unload by the host is unloading: the one the step looks
\* up, or the one of the Unload frame at the bottom of the stack
UnloadingByHost ==
  IF Idle
  THEN IF last'.op = "Unload" THEN Lookup(last'.arg) ELSE NoInst
  ELSE IF stack[1].k = "unload" /\ stack[1].then = "host" THEN stack[1].p
  ELSE NoInst

\* C37: from the call of Unload(a) by the host to its return, no step
\* changes another loaded instance b: b stays in the plugin table, its
\* descriptor, handle, capability set, hooks and bound functions stay what
\* they are, and its commands stay in the registry and in the observer's
\* table
UnloadLeavesOthers ==
  [][UnloadingByHost # NoInst
       => \A b \in Ids \ {UnloadingByHost} :
             (\E n \in PluginNames : plugins[n] = b)
               => /\ \A n \in PluginNames : plugins[n] = b => plugins'[n] = b
                  /\ inst'[b] = inst[b]
                  /\ \A k \in CmdKeys :
                        mcommands[k] = b
                          => /\ mcommands'[k] = b
                             /\ k \in replCmds <=> k \in replCmds']_vars

\* the gated functions the allow-list check lets instance i call
Permitted(i) == {f \in Gated : CapAllowed(i, f)}

\* C38: with the prompt collaborator installed, the set of gated functions
\* an instance may call gains a function only in a register call of that
\* instance that raised the capability prompt and was answered
\* affirmatively; a register call with a list that is declined, and every
\* other host call, leaves the set as it was or smaller
CapsGrowOnlyOnConsent ==
  [][promptOn =>
       \A i \in Ids :
          (/\ inst[i].handle # NoInst /\ inst'[i].handle = inst[i].handle
           /\ ~(Permitted(inst'[i]) \subseteq Permitted(inst[i])))
            => /\ InGuest /\ Caller = i
               /\ last'.op = "register" /\ last'.own
               /\ "prompt" \in last'.call /\ Affirmative(last'.ans)]_vars

\* an instance restricted to the empty set asked for a list by calling
\* register again and was declined: it is still restricted to the empty set
CapsGrowOnlyOnConsentSeen ==
  /\ promptOn
  /\ last.op = "register" /\ last.arg = "list" /\ last.ans = "n"
  /\ last.err = "api denied"
  /\ stack # <<>> /\ Top.k = "load"
  /\ inst[Top.p].restricted /\ inst[Top.p].allowed = {}

\* C39: the mute table changes only by ToggleMute, which flips the flag of
\* its name whether a plugin of that name is loaded or not; Load, Unload
\* and Reload leave it as it is, so that a print by an instance whose name
\* is muted, in the init of a Reload or of a later Load as well, does not
\* reach the output collaborator, and one whose name is not muted does
MuteSurvivesLifecycle ==
  [][/\ (mute' # mute) => (Idle /\ last'.op = "ToggleMute")
     /\ (Idle /\ last'.op = "ToggleMute")
          => /\ mute'[last'.arg] = ~mute[last'.arg]
             /\ UNCHANGED <<plugins, inst, mcommands, replCmds, stack>>
     /\ (InGuest /\ last'.op = "print" /\ last'.err = "")
          => ("print" \in last'.call
                <=> ~(inst[Caller].name \in PluginNames
                        /\ mute[inst[Caller].name]))]_vars

\* the plugin loaded as "a" was reloaded while "a" was muted, and the print
\* in the init of the reload, after it registered as "a", was dropped
MuteSurvivesLifecycleSeen ==
  /\ last.op = "print" /\ last.err = "" /\ last.call = {}
  /\ mute["a"] /\ nextId = 3
  /\ Len(stack) = 2 /\ stack[1].k = "load" /\ stack[1].then = "reload"
  /\ stack[2].role = "init" /\ inst[stack[2].p].name = "a"
====
